---------------------------- MODULE Spec2Model ----------------------------
(***************************************************************************)
(* A model of the reconciliation engine of work-logger                     *)
(* (compare/compare_gitlab_toggl.py): the key extractor, the date          *)
(* normalizer, the matcher compare_entries, the squash synthesizer         *)
(* generate_squashed_import_data and the snapshot differ                   *)
(* generate_side_by_side_html.                                             *)
(*                                                                         *)
(* Python values are modelled as follows.                                  *)
(*   str    a sequence of one-character strings ("" is << >>)              *)
(*   None   the value None below                                           *)
(*   dict   a function whose DOMAIN is the set of keys present; a key the  *)
(*          record does not carry is absent from the DOMAIN                *)
(*   list   a sequence                                                     *)
(*   defaultdict(list), whose iteration order is the insertion order of    *)
(*          its keys: a sequence of [k, v] pairs                           *)
(* A calendar day 'YYYY-MM-DD' is abbreviated to one digit character, a    *)
(* time of day to one letter, so "1 x" is day 1 at time x.                 *)
(***************************************************************************)
EXTENDS Integers, Sequences, FiniteSets, TLC

VARIABLES
    pc,                     \* position in the run
    gitlab_data,            \* the activity feed file: a dict with 'events'
    toggl_data,             \* the ledger file: a dict with 'entries'
    gitlab_events_by_date,  \* compare_entries, line 858
    toggl_entries_by_date,  \* compare_entries, line 880
    all_toggl_entries,      \* compare_entries, line 881
    matched_toggl_entries,  \* compare_entries, line 910
    missing_entries,        \* compare_entries, line 905
    matched_entries,        \* compare_entries, line 906
    toggl_only_entries,     \* compare_entries, line 907
    toggl_import_data,      \* compare_entries, line 970
    squashed_entries,       \* generate_squashed_import_data, line 750
    original_toggl_data,    \* generate_side_by_side_html: the older snapshot
    updated_toggl_data,     \* generate_side_by_side_html: the newer snapshot
    html_rows,              \* the rows of the 'Updated Toggl Records' column,
                            \* lines 437-444, in the order they are written
    input_text,             \* extract_task_number: its argument text
    extracted_key,          \* extract_task_number: the value it returned
    result_dir,             \* the files of the directory result, line 815: a
                            \* dict from the name of a file to its content
    classifications,        \* the rows of every side-by-side run so far
    second_output,          \* the final_output of a second compare run
    timestamp_str,          \* the string given to the date normalizer
    date_part,              \* what get_date_from_entry returned, line 25
    day_name,               \* what get_day_name returned, lines 29-33
    month_choice,           \* work_flow.main, line 99
    script_choice,          \* work_flow.main, line 113
    files,                  \* work_flow.main: the files the driver looks at
    commands,               \* work_flow.main: the commands run so far
    confirm,                \* work_flow.main, line 236
    flow_exit,              \* work_flow.main: the status the driver ended with
    import_file,            \* import_from_gitlab: the parsed import file
    cursor,                 \* import_from_gitlab: the entry the loop is at
    attempts,               \* the entries add_toggl_entry was called with
    toggl_created,          \* the entries the Toggl service holds
    imported_count,         \* import_from_gitlab, line 367
    import_report,          \* the count printed at line 467, or None
    import_exit             \* the status the import process ended with

matcherVars == <<gitlab_data, toggl_data, gitlab_events_by_date,
                 toggl_entries_by_date, all_toggl_entries,
                 matched_toggl_entries, missing_entries, matched_entries,
                 toggl_only_entries, toggl_import_data, squashed_entries>>

diffVars == <<original_toggl_data, updated_toggl_data, html_rows>>

extractVars == <<input_text, extracted_key>>

runVars == <<result_dir, classifications, second_output>>

dateVars == <<timestamp_str, date_part, day_name>>

flowVars == <<month_choice, script_choice, files, commands, confirm, flow_exit>>

importVars == <<import_file, cursor, attempts, toggl_created, imported_count,
                import_report, import_exit>>

toolVars == <<dateVars, flowVars, importVars>>

vars == <<pc, matcherVars, diffVars, extractVars, runVars, toolVars>>

----------------------------------------------------------------------------
(* Python values *)

None == <<"None">>

IndexError == <<"IndexError">>

EmptyDict == [k \in {} |-> k]

\* bool(v) of a str or None
Truthy(v) == v # None /\ v # <<>>

\* d.get(k, default)
Get(d, k, default) == IF k \in DOMAIN d THEN d[k] ELSE default

IsDigit(c) == c \in {"0", "1", "2", "3", "4", "5", "6", "7", "8", "9"}

IsSpace(c) == c = " "

\* a pattern with \d in place of \d+: one digit only
DigitRunOne(text, i) == <<text[i]>>

\* the maximal run of digits of text from position i: what (\d+) matches
RECURSIVE DigitRun(_, _)
DigitRun(text, i) ==
    IF i <= Len(text) /\ IsDigit(text[i])
    THEN <<text[i]>> \o DigitRun(text, i + 1)
    ELSE <<>>

\* a pattern whose '#' is optional: the first run of digits anywhere
RECURSIVE re_search_optional_hash(_, _)
re_search_optional_hash(text, i) ==
    IF i > Len(text) THEN None
    ELSE IF IsDigit(text[i]) THEN DigitRun(text, i)
    ELSE re_search_optional_hash(text, i + 1)

\* re.search(r'#(\d+)', text).group(1), scanning from position i; None when
\* there is no match
RECURSIVE re_search(_, _)
re_search(text, i) ==
    IF i + 1 > Len(text) THEN None
    ELSE IF text[i] = "#" /\ IsDigit(text[i + 1]) THEN DigitRun(text, i + 1)
    ELSE re_search(text, i + 1)

extract_task_number(text) ==
    IF ~Truthy(text) THEN None ELSE re_search(text, 1)

RECURSIVE SkipSpace(_, _)
SkipSpace(s, i) ==
    IF i <= Len(s) /\ IsSpace(s[i]) THEN SkipSpace(s, i + 1) ELSE i

RECURSIVE Token(_, _)
Token(s, i) ==
    IF i <= Len(s) /\ ~IsSpace(s[i])
    THEN <<s[i]>> \o Token(s, i + 1)
    ELSE <<>>

\* entry_date.split()[0]: the first whitespace-delimited token; IndexError
\* when the string holds no token
get_date_from_entry(entry_date) ==
    LET i == SkipSpace(entry_date, 1)
    IN  IF i > Len(entry_date) THEN IndexError ELSE Token(entry_date, i)

----------------------------------------------------------------------------
(* defaultdict(list) with insertion-ordered keys *)

ODKeys(d) == {d[i].k : i \in DOMAIN d}

ODIndex(d, key) == CHOOSE i \in DOMAIN d : d[i].k = key

\* d.get(key, default)
ODGet(d, key, default) ==
    IF key \in ODKeys(d) THEN d[ODIndex(d, key)].v ELSE default

\* a defaultdict that puts a new key in front of the older ones
ODPrepend(d, key, x) ==
    IF key \in ODKeys(d)
    THEN [d EXCEPT ![ODIndex(d, key)].v = Append(@, x)]
    ELSE <<[k |-> key, v |-> <<x>>]>> \o d

\* d[key].append(x)
ODAppend(d, key, x) ==
    IF key \in ODKeys(d)
    THEN [d EXCEPT ![ODIndex(d, key)].v = Append(@, x)]
    ELSE Append(d, [k |-> key, v |-> <<x>>])

----------------------------------------------------------------------------
(* compare_entries *)

\* what a loop that raised leaves to its caller
Raised == [raised |-> TRUE]

\* lines 861-865: the key of an event, taken from details.target
EventTaskNumber(event) ==
    IF "details" \in DOMAIN event /\ "target" \in DOMAIN event.details
    THEN extract_task_number(event.details.target)
    ELSE None

\* the standardized event of lines 871-877
StandardEvent(event) ==
    [date |-> Get(event, "date", <<>>),
     action |-> Get(event, "action", <<>>),
     project |-> Get(event, "project", <<>>),
     task_number |-> EventTaskNumber(event),
     details |-> Get(event, "details", EmptyDict)]

\* a grouping without the filter of lines 867-869: every event is kept
RECURSIVE GroupGitlabEventsUnfiltered(_, _, _)
GroupGitlabEventsUnfiltered(events, i, by_date) ==
    IF i > Len(events) THEN [raised |-> FALSE, by_date |-> by_date]
    ELSE
      LET event == events[i]
          date == get_date_from_entry(Get(event, "date", <<>>))
      IN  IF date = IndexError THEN Raised
          ELSE GroupGitlabEventsUnfiltered(events, i + 1,
                   ODAppend(by_date, date, StandardEvent(event)))

\* the loop of lines 859-877 over events[i..]
RECURSIVE GroupGitlabEvents(_, _, _)
GroupGitlabEvents(events, i, by_date) ==
    IF i > Len(events) THEN [raised |-> FALSE, by_date |-> by_date]
    ELSE
      LET event == events[i]
          date == get_date_from_entry(Get(event, "date", <<>>))
          task_number == EventTaskNumber(event)
      IN  IF date = IndexError THEN Raised
          ELSE IF ~Truthy(task_number)
          THEN GroupGitlabEvents(events, i + 1, by_date)
          ELSE GroupGitlabEvents(events, i + 1,
                   ODAppend(by_date, date, StandardEvent(event)))

\* the standardized entry of lines 888-895
StandardTogglEntry(entry) ==
    [date |-> Get(entry, "date", <<>>),
     description |-> Get(entry, "description", <<>>),
     project |-> Get(entry, "project", <<>>),
     task_number |-> extract_task_number(Get(entry, "description", <<>>)),
     duration |-> Get(entry, "duration", 0),
     duration_formatted |-> Get(entry, "duration_formatted", <<>>)]

\* a slip that adds an entry with a key to the all-entries list a second time
AddTogglEntryTwice(acc, date, toggl_entry) ==
    IF Truthy(toggl_entry.task_number)
    THEN [raised |-> FALSE,
          by_date |-> ODAppend(acc.by_date, date, toggl_entry),
          all |-> acc.all \o <<toggl_entry, toggl_entry>>]
    ELSE [raised |-> FALSE, by_date |-> acc.by_date,
          all |-> Append(acc.all, toggl_entry)]

\* lines 897-902: every entry goes to all_toggl_entries, an entry with a key
\* also to toggl_entries_by_date
AddTogglEntry(acc, date, toggl_entry) ==
    [raised |-> FALSE,
     by_date |-> IF Truthy(toggl_entry.task_number)
                 THEN ODAppend(acc.by_date, date, toggl_entry)
                 ELSE acc.by_date,
     all |-> Append(acc.all, toggl_entry)]

\* the loop of lines 883-902 over entries[i..]; acc holds toggl_entries_by_date
\* and all_toggl_entries
RECURSIVE GroupTogglEntries(_, _, _)
GroupTogglEntries(entries, i, acc) ==
    IF i > Len(entries) THEN acc
    ELSE
      LET entry == entries[i]
          date == get_date_from_entry(Get(entry, "date", <<>>))
          toggl_entry == StandardTogglEntry(entry)
      IN  IF date = IndexError THEN Raised
          ELSE GroupTogglEntries(entries, i + 1,
                   AddTogglEntry(acc, date, toggl_entry))

\* a base entry described by the event's whole target text
BaseEntryFullTarget(event) ==
    [date |-> event.date,
     description |-> Get(event.details, "target", <<>>),
     project |-> event.project,
     action |-> event.action,
     details |-> event.details]

\* the base entry of lines 922-928
BaseEntry(event) ==
    [date |-> event.date,
     description |-> <<"#">> \o event.task_number,
     project |-> event.project,
     action |-> event.action,
     details |-> event.details]

\* a matcher that consumes one ledger entry per event: only the first entry
\* with the event's key is marked
MarkFirstMatched(date, toggl_entries, event) ==
    LET same == {j \in DOMAIN toggl_entries :
                    toggl_entries[j].task_number = event.task_number}
    IN  IF same = {} THEN {}
        ELSE LET j == CHOOSE j \in same : \A m \in same : j <= m
             IN  {<<date, toggl_entries[j].task_number, toggl_entries[j].date>>}

\* a matcher that consumes only the ledger entries at the event's timestamp
MarkMatchedSameTime(date, toggl_entries, event) ==
    {<<date, toggl_entries[j].task_number, toggl_entries[j].date>> :
        j \in {j \in DOMAIN toggl_entries :
                  /\ toggl_entries[j].task_number = event.task_number
                  /\ toggl_entries[j].date = event.date}}

\* lines 936-938: the triples of the ledger entries of this date with the
\* event's key
MarkMatched(date, toggl_entries, event) ==
    {<<date, toggl_entries[j].task_number, toggl_entries[j].date>> :
        j \in {j \in DOMAIN toggl_entries :
                  toggl_entries[j].task_number = event.task_number}}

\* line 931: is the event's key logged in the ledger for this date
IsLogged(event, toggl_task_numbers) ==
    event.task_number \in toggl_task_numbers

\* line 917: the keys logged in the ledger for a date
TogglTaskNumbers(toggl_entries) ==
    {toggl_entries[j].task_number : j \in DOMAIN toggl_entries}

\* a loop body without its else: a matched event is appended to the missing
\* list too
ProcessEventNoElse(date, toggl_entries, event, acc) ==
    LET entry == BaseEntry(event)
    IN  IF IsLogged(event, TogglTaskNumbers(toggl_entries))
        THEN [acc EXCEPT
                !.matched = Append(@, entry),
                !.missing = Append(@, entry),
                !.matched_toggl =
                    @ \cup MarkMatched(date, toggl_entries, event)]
        ELSE [acc EXCEPT !.missing = Append(@, entry)]

\* a one-to-one matcher: an event is matched only while a ledger entry with
\* its key is still unconsumed, and consumes that one entry
ProcessEventOneToOne(date, toggl_entries, event, acc) ==
    LET entry == BaseEntry(event)
        free == {j \in DOMAIN toggl_entries :
                    /\ toggl_entries[j].task_number = event.task_number
                    /\ <<date, toggl_entries[j].task_number,
                          toggl_entries[j].date>> \notin acc.matched_toggl}
    IN  IF free # {}
        THEN [acc EXCEPT
                !.matched = Append(@, entry),
                !.matched_toggl = @ \cup
                    {<<date, event.task_number,
                       toggl_entries[CHOOSE j \in free : TRUE].date>>}]
        ELSE [acc EXCEPT !.missing = Append(@, entry)]

\* the loop body of lines 921-941: one event of a date is classified
ProcessEvent(date, toggl_entries, event, acc) ==
    LET entry == BaseEntry(event)
    IN  IF IsLogged(event, TogglTaskNumbers(toggl_entries))
        THEN [acc EXCEPT
                !.matched = Append(@, entry),
                !.matched_toggl =
                    @ \cup MarkMatched(date, toggl_entries, event)]
        ELSE [acc EXCEPT !.missing = Append(@, entry)]

\* the loop of lines 920-941 over gitlab_events[i..] of one date
RECURSIVE ProcessEvents(_, _, _, _, _)
ProcessEvents(date, gitlab_events, i, toggl_entries, acc) ==
    IF i > Len(gitlab_events) THEN acc
    ELSE ProcessEvents(date, gitlab_events, i + 1, toggl_entries,
             ProcessEvent(date, toggl_entries, gitlab_events[i], acc))

\* the entries of every date, one list after the other
RECURSIVE AllDates(_, _)
AllDates(by_date, n) ==
    IF n > Len(by_date) THEN <<>>
    ELSE by_date[n].v \o AllDates(by_date, n + 1)

\* a matcher that looks the key up in the whole ledger, whatever the date
TogglEntriesAnyDate(by_date, date) == AllDates(by_date, 1)

\* line 914: the ledger entries the matcher consults for a date
TogglEntriesFor(by_date, date) == ODGet(by_date, date, <<>>)

\* the loop of lines 913-941 over the dates of gitlab_events_by_date[n..]
RECURSIVE ProcessDates(_, _, _, _)
ProcessDates(events_by_date, n, entries_by_date, acc) ==
    IF n > Len(events_by_date) THEN acc
    ELSE
      LET date == events_by_date[n].k
          gitlab_events == events_by_date[n].v
          toggl_entries == TogglEntriesFor(entries_by_date, date)
      IN  ProcessDates(events_by_date, n + 1, entries_by_date,
              ProcessEvents(date, gitlab_events, 1, toggl_entries, acc))

\* line 948: the ledger entry was not matched with any activity event
IsTogglOnly(toggl_entry, matched) ==
    LET date == get_date_from_entry(toggl_entry.date)
    IN  \/ ~Truthy(toggl_entry.task_number)
        \/ <<date, toggl_entry.task_number, toggl_entry.date>> \notin matched

\* the entry of lines 950-957
TogglOnlyEntry(toggl_entry) ==
    [date |-> toggl_entry.date,
     description |-> toggl_entry.description,
     project |-> toggl_entry.project,
     duration |-> toggl_entry.duration,
     duration_formatted |-> toggl_entry.duration_formatted,
     action |-> <<"T", "o", "g", "g", "l", " ", "E", "n", "t", "r", "y">>]

\* the loop of lines 944-958 over all_entries[i..]
RECURSIVE FindTogglOnly(_, _, _)
FindTogglOnly(all_entries, i, matched) ==
    IF i > Len(all_entries) THEN <<>>
    ELSE (IF IsTogglOnly(all_entries[i], matched)
          THEN <<TogglOnlyEntry(all_entries[i])>>
          ELSE <<>>) \o FindTogglOnly(all_entries, i + 1, matched)

\* str.lower() and str.replace(' ', '-') of line 986, on the model's alphabet
LowerChar(c) ==
    CASE c = "P" -> "p" [] c = "T" -> "t" [] c = "E" -> "e" [] OTHER -> c

ActionTag(action) ==
    [i \in DOMAIN action |->
        IF action[i] = " " THEN "-" ELSE LowerChar(action[i])]

GitlabImportTag ==
    <<"g", "i", "t", "l", "a", "b", "-", "i", "m", "p", "o", "r", "t">>

SquashedTag == <<"s", "q", "u", "a", "s", "h", "e", "d">>

\* line 978: the duration of one unsquashed import entry, 30 * 60 seconds
DefaultDuration == 1800

\* an import entry that books a whole hour for one occurrence
TogglImportEntryHour(entry) ==
    [description |->
        IF "target" \in DOMAIN entry.details /\ Truthy(entry.details.target)
        THEN entry.details.target
        ELSE entry.description,
     start |-> entry.date,
     duration |-> 2 * DefaultDuration,
     project_name |-> entry.project,
     tags |-> <<GitlabImportTag, ActionTag(entry.action)>>]

\* the import entry of lines 972-987
TogglImportEntry(entry) ==
    [description |->
        IF "target" \in DOMAIN entry.details /\ Truthy(entry.details.target)
        THEN entry.details.target
        ELSE entry.description,
     start |-> entry.date,
     duration |-> DefaultDuration,
     project_name |-> entry.project,
     tags |-> <<GitlabImportTag, ActionTag(entry.action)>>]

\* the loop of lines 971-988
FormatImportData(missing) ==
    [i \in DOMAIN missing |-> TogglImportEntry(missing[i])]

----------------------------------------------------------------------------
(* generate_squashed_import_data *)

\* a grouping that forgets the day: every record joins the first day's groups
ODAppend2AnyDay(d, date, task_number, entry) ==
    IF d # <<>>
    THEN [d EXCEPT ![1].v = ODAppend(@, task_number, entry)]
    ELSE Append(d, [k |-> date,
                    v |-> <<[k |-> task_number, v |-> <<entry>>]>>])

\* entries_by_date_task[date][task_number].append(entry), line 747
ODAppend2(d, date, task_number, entry) ==
    IF date \in ODKeys(d)
    THEN [d EXCEPT ![ODIndex(d, date)].v = ODAppend(@, task_number, entry)]
    ELSE Append(d, [k |-> date,
                    v |-> <<[k |-> task_number, v |-> <<entry>>]>>])

\* line 744: the key a missing record is grouped under
SquashKey(entry) == extract_task_number(Get(entry, "description", <<>>))

\* a grouping without the test of line 746: a record without a key is
\* grouped under the key None
RECURSIVE GroupMissingUnfiltered(_, _, _)
GroupMissingUnfiltered(missing, i, by_date_task) ==
    IF i > Len(missing)
    THEN [raised |-> FALSE, by_date_task |-> by_date_task]
    ELSE
      LET entry == missing[i]
          date == get_date_from_entry(entry.date)
      IN  IF date = IndexError THEN Raised
          ELSE GroupMissingUnfiltered(missing, i + 1,
                   ODAppend2(by_date_task, date, SquashKey(entry), entry))

\* the loop of lines 742-747 over missing[i..]
RECURSIVE GroupMissing(_, _, _)
GroupMissing(missing, i, by_date_task) ==
    IF i > Len(missing)
    THEN [raised |-> FALSE, by_date_task |-> by_date_task]
    ELSE
      LET entry == missing[i]
          date == get_date_from_entry(entry.date)
          task_number == SquashKey(entry)
      IN  IF date = IndexError THEN Raised
          ELSE GroupMissing(missing, i + 1,
                   IF Truthy(task_number)
                   THEN ODAppend2(by_date_task, date, task_number, entry)
                   ELSE by_date_task)

\* line 763: each occurrence counts for 30 minutes
SquashUnit == 1800

\* a squash that keeps the duration of one occurrence
SquashDurationOnce(entries) == SquashUnit

\* line 763
SquashDuration(entries) == Len(entries) * SquashUnit

\* a squash that takes the last record of the group
LastEntry(entries) == entries[Len(entries)]

\* line 759: the record the squashed entry takes its start, label and
\* project from
FirstEntry(entries) == entries[1]

\* a squashed entry that is always described by the bare '#key' text
SquashedEntryBareKey(task_number, entries) ==
    LET first_entry == entries[1]
    IN  [description |-> <<"#">> \o task_number,
         start |-> first_entry.date,
         duration |-> Len(entries) * 1800,
         project_name |-> first_entry.project,
         tags |-> <<GitlabImportTag, SquashedTag>>]

\* the squashed entry of lines 758-777
SquashedEntry(task_number, entries) ==
    LET first_entry == FirstEntry(entries)
    IN  [description |->
            IF "details" \in DOMAIN first_entry
               /\ "target" \in DOMAIN first_entry.details
            THEN first_entry.details.target
            ELSE <<"#">> \o task_number,
         start |-> first_entry.date,
         duration |-> SquashDuration(entries),
         project_name |-> first_entry.project,
         tags |-> <<GitlabImportTag, SquashedTag>>]

\* a loop that stops after the first task of the date
SquashTasksFirstOnly(tasks, j) ==
    IF tasks = <<>> \/ tasks[1].v = <<>> THEN <<>>
    ELSE <<SquashedEntry(tasks[1].k, tasks[1].v)>>

\* the loop of lines 753-779 over the tasks[j..] of one date
RECURSIVE SquashTasks(_, _)
SquashTasks(tasks, j) ==
    IF j > Len(tasks) THEN <<>>
    ELSE (IF tasks[j].v = <<>> THEN <<>>
          ELSE <<SquashedEntry(tasks[j].k, tasks[j].v)>>)
         \o SquashTasks(tasks, j + 1)

\* a walk through the dates from the last one to the first
RECURSIVE SquashDatesBackwards(_, _)
SquashDatesBackwards(by_date_task, n) ==
    IF n > Len(by_date_task) THEN <<>>
    ELSE SquashDatesBackwards(by_date_task, n + 1)
             \o SquashTasks(by_date_task[n].v, 1)

\* the loop of lines 752-779 over the dates by_date_task[n..]
RECURSIVE SquashDates(_, _)
SquashDates(by_date_task, n) ==
    IF n > Len(by_date_task) THEN <<>>
    ELSE SquashTasks(by_date_task[n].v, 1) \o SquashDates(by_date_task, n + 1)

generate_squashed_import_data(missing) ==
    LET grouped == GroupMissing(missing, 1, <<>>)
    IN  IF grouped.raised THEN Raised
        ELSE [raised |-> FALSE,
              entries |-> SquashDates(grouped.by_date_task, 1)]

----------------------------------------------------------------------------
(* The inputs of a reconciliation run *)

\* at most this many events in the activity feed
MaxEvents == 3

\* at most this many entries in the ledger
MaxEntries == 2

\* every sequence over S of length at most n
SeqUpTo(S, n) == UNION {[1..m -> S] : m \in 0..n}

GitlabEvent(date, target) ==
    [date |-> date, action |-> <<"P", " ", "t">>, project |-> <<"w">>,
     details |-> [target |-> target]]

\* the activity events of the runs: two keys, two days, an event whose target
\* has no key, one without details and one without a timestamp
GitlabEvents ==
    {GitlabEvent(<<"1", " ", "x">>, <<"#", "1", " ", "a">>),
     GitlabEvent(<<"1", " ", "y">>, <<"#", "2">>),
     GitlabEvent(<<"2", " ", "x">>, <<"#", "1", " ", "a">>),
     GitlabEvent(<<"1", " ", "x">>, <<"a">>),
     [date |-> <<"2", " ", "y">>, action |-> <<"P", " ", "t">>,
      project |-> <<"w">>],
     [action |-> <<"P", " ", "t">>, project |-> <<"w">>,
      details |-> [target |-> <<"#", "1", " ", "a">>]]}

TogglEntry(date, description) ==
    [date |-> date, description |-> description, project |-> <<"w">>,
     duration |-> 1, duration_formatted |-> <<"1", "h">>, tags |-> <<>>]

\* the ledger entries of the runs: one key at two times of day 1 and on day
\* 2, an entry without a key and one with an empty timestamp
TogglEntries ==
    {TogglEntry(<<"1", " ", "x">>, <<"#", "1", " ", "b">>),
     TogglEntry(<<"1", " ", "y">>, <<"#", "1", " ", "b">>),
     TogglEntry(<<"2", " ", "x">>, <<"#", "1", " ", "b">>),
     TogglEntry(<<"1", " ", "x">>, <<"b">>),
     TogglEntry(<<>>, <<"#", "1", " ", "b">>)}

\* the locals of compare_entries before its first loop
Locals ==
    /\ gitlab_events_by_date = <<>>
    /\ toggl_entries_by_date = <<>>
    /\ all_toggl_entries = <<>>
    /\ matched_toggl_entries = {}
    /\ missing_entries = <<>>
    /\ matched_entries = <<>>
    /\ toggl_only_entries = <<>>
    /\ toggl_import_data = <<>>
    /\ squashed_entries = <<>>

\* no snapshot diff is part of the run
NoDiff ==
    /\ original_toggl_data = EmptyDict
    /\ updated_toggl_data = EmptyDict
    /\ html_rows = <<>>

\* no key extraction of its own and no earlier run are part of the run
NoExtract ==
    /\ input_text = None
    /\ extracted_key = None

NoRuns ==
    /\ result_dir = EmptyDict
    /\ classifications = <<>>
    /\ second_output = EmptyDict

\* no call of the date normalizer of its own
NoDates ==
    /\ timestamp_str = <<>>
    /\ date_part = None
    /\ day_name = None

\* the workflow driver is not running
NoFlow ==
    /\ month_choice = 0
    /\ script_choice = 0
    /\ files = EmptyDict
    /\ commands = <<>>
    /\ confirm = None
    /\ flow_exit = None

\* no import into the ledger is running
NoImport ==
    /\ import_file = EmptyDict
    /\ cursor = 0
    /\ attempts = <<>>
    /\ toggl_created = <<>>
    /\ imported_count = 0
    /\ import_report = None
    /\ import_exit = None

NoTools == NoDates /\ NoFlow /\ NoImport

Init ==
    /\ pc = "start"
    /\ gitlab_data \in [events : SeqUpTo(GitlabEvents, MaxEvents)]
    /\ toggl_data \in [entries : SeqUpTo(TogglEntries, MaxEntries)]
    /\ Locals
    /\ NoDiff
    /\ NoExtract
    /\ NoTools
    /\ NoRuns

----------------------------------------------------------------------------
(* The steps of compare_entries *)

\* lines 857-877; an event without a timestamp raises IndexError at line 860
GroupEvents ==
    /\ pc = "start"
    /\ LET acc == GroupGitlabEvents(Get(gitlab_data, "events", <<>>), 1, <<>>)
       IN  IF acc.raised
           THEN /\ pc' = "raised"
                /\ UNCHANGED gitlab_events_by_date
           ELSE /\ pc' = "events_grouped"
                /\ gitlab_events_by_date' = acc.by_date
    /\ UNCHANGED <<gitlab_data, toggl_data, toggl_entries_by_date,
                   all_toggl_entries, matched_toggl_entries, missing_entries,
                   matched_entries, toggl_only_entries, toggl_import_data,
                   squashed_entries>>
    /\ UNCHANGED diffVars
    /\ UNCHANGED <<extractVars, runVars>>
    /\ UNCHANGED toolVars

\* lines 879-902; an entry without a timestamp raises IndexError at line 884
GroupEntries ==
    /\ pc = "events_grouped"
    /\ LET acc == GroupTogglEntries(Get(toggl_data, "entries", <<>>), 1,
                      [raised |-> FALSE, by_date |-> <<>>, all |-> <<>>])
       IN  IF acc.raised
           THEN /\ pc' = "raised"
                /\ UNCHANGED <<toggl_entries_by_date, all_toggl_entries>>
           ELSE /\ pc' = "entries_grouped"
                /\ toggl_entries_by_date' = acc.by_date
                /\ all_toggl_entries' = acc.all
    /\ UNCHANGED <<gitlab_data, toggl_data, gitlab_events_by_date,
                   matched_toggl_entries, missing_entries, matched_entries,
                   toggl_only_entries, toggl_import_data, squashed_entries>>
    /\ UNCHANGED diffVars
    /\ UNCHANGED <<extractVars, runVars>>
    /\ UNCHANGED toolVars

\* lines 904-941
MatchEvents ==
    /\ pc = "entries_grouped"
    /\ LET acc == ProcessDates(gitlab_events_by_date, 1, toggl_entries_by_date,
                      [missing |-> <<>>, matched |-> <<>>, matched_toggl |-> {}])
       IN  /\ missing_entries' = acc.missing
           /\ matched_entries' = acc.matched
           /\ matched_toggl_entries' = acc.matched_toggl
    /\ pc' = "events_matched"
    /\ UNCHANGED <<gitlab_data, toggl_data, gitlab_events_by_date,
                   toggl_entries_by_date, all_toggl_entries,
                   toggl_only_entries, toggl_import_data, squashed_entries>>
    /\ UNCHANGED diffVars
    /\ UNCHANGED <<extractVars, runVars>>
    /\ UNCHANGED toolVars

\* lines 943-958
FindTogglOnlyEntries ==
    /\ pc = "events_matched"
    /\ toggl_only_entries' =
           FindTogglOnly(all_toggl_entries, 1, matched_toggl_entries)
    /\ pc' = "toggl_only_found"
    /\ UNCHANGED <<gitlab_data, toggl_data, gitlab_events_by_date,
                   toggl_entries_by_date, all_toggl_entries,
                   matched_toggl_entries, missing_entries, matched_entries,
                   toggl_import_data, squashed_entries>>
    /\ UNCHANGED diffVars
    /\ UNCHANGED <<extractVars, runVars>>
    /\ UNCHANGED toolVars

\* lines 960-1005
FormatOutput ==
    /\ pc = "toggl_only_found"
    /\ toggl_import_data' = FormatImportData(missing_entries)
    /\ pc' = "output_ready"
    /\ UNCHANGED <<gitlab_data, toggl_data, gitlab_events_by_date,
                   toggl_entries_by_date, all_toggl_entries,
                   matched_toggl_entries, missing_entries, matched_entries,
                   toggl_only_entries, squashed_entries>>
    /\ UNCHANGED diffVars
    /\ UNCHANGED <<extractVars, runVars>>
    /\ UNCHANGED toolVars

\* lines 1007-1024 with generate_import set: the squashed batch is written
GenerateImport ==
    /\ pc = "output_ready"
    /\ LET squashed == generate_squashed_import_data(missing_entries)
       IN  IF squashed.raised
           THEN /\ pc' = "raised"
                /\ UNCHANGED squashed_entries
           ELSE /\ pc' = "done"
                /\ squashed_entries' = squashed.entries
    /\ UNCHANGED <<gitlab_data, toggl_data, gitlab_events_by_date,
                   toggl_entries_by_date, all_toggl_entries,
                   matched_toggl_entries, missing_entries, matched_entries,
                   toggl_only_entries, toggl_import_data>>
    /\ UNCHANGED diffVars
    /\ UNCHANGED <<extractVars, runVars>>
    /\ UNCHANGED toolVars

\* line 1008 with generate_import not set
SkipImport ==
    /\ pc = "output_ready"
    /\ pc' = "reported"
    /\ UNCHANGED <<gitlab_data, toggl_data, gitlab_events_by_date,
                   toggl_entries_by_date, all_toggl_entries,
                   matched_toggl_entries, missing_entries, matched_entries,
                   toggl_only_entries, toggl_import_data, squashed_entries>>
    /\ UNCHANGED diffVars
    /\ UNCHANGED <<extractVars, runVars>>
    /\ UNCHANGED toolVars

Next ==
    \/ GroupEvents
    \/ GroupEntries
    \/ MatchEvents
    \/ FindTogglOnlyEntries
    \/ FormatOutput
    \/ GenerateImport
    \/ SkipImport

Spec == Init /\ [][Next]_vars

----------------------------------------------------------------------------
(* Python's order on str, for min, max and sorted *)

\* the characters of the model in code point order
Alphabet ==
    <<" ", "#", "-", "0", "1", "2", "3", "4", "5", "6", "7", "8", "9", "?",
      "D", "E", "N", "P", "T", "a", "b", "c", "d", "e", "g", "h", "i", "l",
      "m", "n", "o", "p", "q", "r", "s", "t", "u", "w", "x", "y">>

Ord(c) == CHOOSE i \in DOMAIN Alphabet : Alphabet[i] = c

\* a < b for two str
RECURSIVE StrLess(_, _)
StrLess(a, b) ==
    IF b = <<>> THEN FALSE
    ELSE IF a = <<>> THEN TRUE
    ELSE IF Head(a) = Head(b) THEN StrLess(Tail(a), Tail(b))
    ELSE Ord(Head(a)) < Ord(Head(b))

\* min(a, b) and max(a, b): the first argument when neither is smaller
StrMin(a, b) == IF StrLess(b, a) THEN b ELSE a

StrMax(a, b) == IF StrLess(a, b) THEN b ELSE a

\* sorted(S) of a set of str
RECURSIVE SortedStrs(_)
SortedStrs(S) ==
    IF S = {} THEN <<>>
    ELSE LET least == CHOOSE x \in S : \A y \in S : ~StrLess(y, x)
         IN  <<least>> \o SortedStrs(S \ {least})

\* list.insert into a list sorted by date, after the entries that are not
\* later: sorted() is stable
RECURSIVE InsertByDate(_, _)
InsertByDate(sorted, entry) ==
    IF sorted = <<>> THEN <<entry>>
    ELSE IF StrLess(Get(entry, "date", <<>>), Get(Head(sorted), "date", <<>>))
    THEN <<entry>> \o sorted
    ELSE <<Head(sorted)>> \o InsertByDate(Tail(sorted), entry)

\* sorted(entries, key=lambda x: x.get('date', '')), lines 310 and 393
RECURSIVE SortedByDate(_)
SortedByDate(entries) ==
    IF entries = <<>> THEN <<>>
    ELSE InsertByDate(SortedByDate(SubSeq(entries, 1, Len(entries) - 1)),
                      entries[Len(entries)])

----------------------------------------------------------------------------
(* generate_side_by_side_html *)

\* the default start and end of a snapshot without a period, lines 61-66:
\* '9999-12-31' and '1970-01-01', the last and the first day of the calendar
DefaultStart == <<"9">>

DefaultEnd == <<"0">>

\* datetime.strptime(s, '%Y-%m-%d') succeeds: s is a day of the calendar
IsDay(s) == Len(s) = 1 /\ IsDigit(s[1])

\* the day number strptime gives, and the string strftime gives back
DayNumber(s) == CHOOSE n \in 0..9 : Alphabet[n + 4] = s[1]

DayString(n) == <<Alphabet[n + 4]>>

\* now.replace(day=1), line 76: the first day of the month of now; the days
\* "1" to "8" of the calendar are one month
FirstOfMonth(now) == <<"1">>

\* lines 59-84: the days from the earlier start to the later end of the two
\* periods, or the current month up to now when one of them does not parse
all_dates(original, updated, now) ==
    LET start_date_str ==
            StrMin(Get(Get(original, "period", EmptyDict), "start", DefaultStart),
                   Get(Get(updated, "period", EmptyDict), "start", DefaultStart))
        end_date_str ==
            StrMax(Get(Get(original, "period", EmptyDict), "end", DefaultEnd),
                   Get(Get(updated, "period", EmptyDict), "end", DefaultEnd))
        valid == IsDay(start_date_str) /\ IsDay(end_date_str)
        start_date == IF valid THEN DayNumber(start_date_str)
                      ELSE DayNumber(FirstOfMonth(now))
        end_date == IF valid THEN DayNumber(end_date_str) ELSE DayNumber(now)
    IN  [n \in 1..(end_date - start_date + 1) |-> DayString(start_date + n - 1)]

NoDescription ==
    <<"N", "o", " ", "d", "e", "s", "c", "r", "i", "p", "t", "i", "o", "n">>

\* a grouping that puts every entry without a task number under one
\* placeholder key
GroupKeyPlaceholder(entry) ==
    LET task_number == extract_task_number(Get(entry, "description", <<>>))
    IN  IF Truthy(task_number) THEN task_number
        ELSE NoDescription

\* lines 93-98: the key an entry is grouped under, its task number or, without
\* one, its description
GroupKey(entry) ==
    LET task_number == extract_task_number(Get(entry, "description", <<>>))
    IN  IF Truthy(task_number) THEN task_number
        ELSE Get(entry, "description", NoDescription)

\* the loops of lines 91-98 and 101-108 over entries[i..]
RECURSIVE GroupByDateTask(_, _, _)
GroupByDateTask(entries, i, by_date_task) ==
    IF i > Len(entries)
    THEN [raised |-> FALSE, by_date_task |-> by_date_task]
    ELSE
      LET entry == entries[i]
          date == get_date_from_entry(Get(entry, "date", <<>>))
      IN  IF date = IndexError THEN Raised
          ELSE GroupByDateTask(entries, i + 1,
                   ODAppend2(by_date_task, date, GroupKey(entry), entry))

\* by_date_task[date].get(task_id, [])
TaskEntries(by_date_task, date, task_id) ==
    ODGet(ODGet(by_date_task, date, <<>>), task_id, <<>>)

\* set(by_date_task[date].keys())
TaskIds(by_date_task, date) == ODKeys(ODGet(by_date_task, date, <<>>))

\* a comparison of the day instead of the whole timestamp
MatchingEntriesOfDay(entry, original_task_entries) ==
    SelectSeq(original_task_entries,
              LAMBDA orig_entry :
                  get_date_from_entry(Get(orig_entry, "date", <<>>))
                      = get_date_from_entry(Get(entry, "date", <<>>)))

\* lines 414-417: the older entries of the group with the entry's timestamp
MatchingEntries(entry, original_task_entries) ==
    SelectSeq(original_task_entries,
              LAMBDA orig_entry :
                  Get(orig_entry, "date", <<>>) = Get(entry, "date", <<>>))

\* a comparison that leaves the duration out
FieldsDifferButDuration(entry, orig_entry) ==
    \/ Get(entry, "description", <<>>) # Get(orig_entry, "description", <<>>)
    \/ Get(entry, "project", <<>>) # Get(orig_entry, "project", <<>>)
    \/ Get(entry, "tags", <<>>) # Get(orig_entry, "tags", <<>>)

\* lines 427-430: one of the four compared fields differs
FieldsDiffer(entry, orig_entry) ==
    \/ Get(entry, "description", <<>>) # Get(orig_entry, "description", <<>>)
    \/ Get(entry, "project", <<>>) # Get(orig_entry, "project", <<>>)
    \/ Get(entry, "duration", 0) # Get(orig_entry, "duration", 0)
    \/ Get(entry, "tags", <<>>) # Get(orig_entry, "tags", <<>>)

\* lines 410-435: the class of the row of a newer entry
RowClass(entry, original_task_entries) ==
    LET matching_entries == MatchingEntries(entry, original_task_entries)
    IN  IF matching_entries = <<>> THEN "added"
        ELSE IF \E k \in DOMAIN matching_entries :
                    FieldsDiffer(entry, matching_entries[k])
        THEN "modified"
        ELSE ""

\* the loop of lines 396-444 over the sorted entries of one task
TaskRows(date, task_id, sorted_entries, original_task_entries) ==
    [k \in DOMAIN sorted_entries |->
        [date |-> date, task_id |-> task_id, entry |-> sorted_entries[k],
         row_class |-> RowClass(sorted_entries[k], original_task_entries)]]

\* the loop of lines 364-449 over the sorted task ids[j..] of one date
RECURSIVE DateRows(_, _, _, _, _)
DateRows(date, task_ids, j, original_by, updated_by) ==
    IF j > Len(task_ids) THEN <<>>
    ELSE
      LET task_id == task_ids[j]
          updated_task_entries == TaskEntries(updated_by, date, task_id)
          original_task_entries == TaskEntries(original_by, date, task_id)
      IN  (IF updated_task_entries = <<>> THEN <<>>
           ELSE TaskRows(date, task_id, SortedByDate(updated_task_entries),
                         original_task_entries))
          \o DateRows(date, task_ids, j + 1, original_by, updated_by)

\* line 347: the days the right column walks through, latest first
RECURSIVE Reversed(_)
Reversed(list) ==
    IF list = <<>> THEN <<>>
    ELSE Append(Reversed(Tail(list)), Head(list))

ColumnDates(dates) == Reversed(SortedStrs({dates[n] : n \in DOMAIN dates}))

\* the loop of lines 347-453 over dates[n..]
RECURSIVE ColumnRows(_, _, _, _)
ColumnRows(dates, n, original_by, updated_by) ==
    IF n > Len(dates) THEN <<>>
    ELSE
      LET date == dates[n]
          date_task_ids ==
              TaskIds(original_by, date) \cup TaskIds(updated_by, date)
      IN  DateRows(date, SortedStrs(date_task_ids), 1, original_by, updated_by)
          \o ColumnRows(dates, n + 1, original_by, updated_by)

\* the rows of the right column of generate_side_by_side_html run at day now
generate_side_by_side_html(original, updated, now) ==
    LET dates == all_dates(original, updated, now)
        original_by ==
            GroupByDateTask(Get(original, "entries", <<>>), 1, <<>>)
        updated_by ==
            GroupByDateTask(Get(updated, "entries", <<>>), 1, <<>>)
    IN  IF original_by.raised \/ updated_by.raised THEN Raised
        ELSE [raised |-> FALSE,
              rows |-> ColumnRows(ColumnDates(dates), 1,
                                  original_by.by_date_task,
                                  updated_by.by_date_task)]

----------------------------------------------------------------------------
(* generate_squashed_import_data on a missing list of its own *)

\* at most this many records in the missing list
MaxMissing == 3

\* a record of the missing list, as lines 922-928 build it; labelled says
\* whether details carries the target label the description was taken from
MissingRecord(date, description, labelled) ==
    [date |-> date, description |-> description, project |-> <<"w">>,
     action |-> <<"P", " ", "t">>,
     details |-> IF labelled THEN [target |-> description \o <<" ", "a">>]
                 ELSE EmptyDict]

\* the missing records of the runs: two days, two times on day 1, two keys
\* and a description without a key, with and without a target label
MissingRecords ==
    {MissingRecord(date, description, labelled) :
        date \in {<<"1", " ", "x">>, <<"1", " ", "y">>, <<"2", " ", "x">>},
        description \in {<<"#", "1">>, <<"#", "2">>, <<"a">>},
        labelled \in BOOLEAN}

InitSquash ==
    /\ pc = "output_ready"
    /\ gitlab_data = [events |-> <<>>]
    /\ toggl_data = [entries |-> <<>>]
    /\ gitlab_events_by_date = <<>>
    /\ toggl_entries_by_date = <<>>
    /\ all_toggl_entries = <<>>
    /\ matched_toggl_entries = {}
    /\ missing_entries \in SeqUpTo(MissingRecords, MaxMissing)
    /\ matched_entries = <<>>
    /\ toggl_only_entries = <<>>
    /\ toggl_import_data = <<>>
    /\ squashed_entries = <<>>
    /\ NoDiff
    /\ NoExtract
    /\ NoTools
    /\ NoRuns

NextSquash == GenerateImport

SpecSquash == InitSquash /\ [][NextSquash]_vars

----------------------------------------------------------------------------
(* The squashed batch, read against the missing list *)

\* the missing records of a day with a key
MissingOf(day, key) ==
    {i \in DOMAIN missing_entries :
        /\ get_date_from_entry(missing_entries[i].date) = day
        /\ extract_task_number(missing_entries[i].description) = key}

\* the (day, key) pairs of the missing records that have a numeric key
MissingPairs ==
    {<<get_date_from_entry(missing_entries[i].date),
       extract_task_number(missing_entries[i].description)>> :
        i \in {i \in DOMAIN missing_entries :
                  Truthy(extract_task_number(missing_entries[i].description))}}

\* the squashed entries of a day with a key: the day is that of the start,
\* the key the one the entry's description carries
SquashedOf(day, key) ==
    {k \in DOMAIN squashed_entries :
        /\ get_date_from_entry(squashed_entries[k].start) = day
        /\ extract_task_number(squashed_entries[k].description) = key}

(* C6: for every group of N missing records sharing a (day, key),
   generate_squashed_import_data produces a squashed entry for the group
   whose duration is exactly N * 1800 seconds. *)
C6_DurationIsCountTimesUnit ==
    pc = "done" =>
        \A p \in MissingPairs :
            /\ SquashedOf(p[1], p[2]) # {}
            /\ \A k \in SquashedOf(p[1], p[2]) :
                   squashed_entries[k].duration
                       = Cardinality(MissingOf(p[1], p[2])) * 1800

\* three missing records of one day and key are squashed to 5400 seconds
C6_Witness ==
    /\ pc = "done"
    /\ \E p \in MissingPairs :
           /\ Cardinality(MissingOf(p[1], p[2])) = 3
           /\ \E k \in SquashedOf(p[1], p[2]) :
                  squashed_entries[k].duration = 5400

(* C7: the squashed batch holds exactly one entry per distinct (day, key)
   pair of the missing records that have a numeric key: no pair twice, no
   pair left out, and no entry for anything else. *)
C7_OneEntryPerPair ==
    pc = "done" =>
        /\ \A p \in MissingPairs : Cardinality(SquashedOf(p[1], p[2])) = 1
        /\ Len(squashed_entries) = Cardinality(MissingPairs)

\* three missing records with a key, in two pairs, give two entries
C7_Witness ==
    /\ pc = "done"
    /\ Len(missing_entries) = 3
    /\ \A i \in DOMAIN missing_entries :
           Truthy(extract_task_number(missing_entries[i].description))
    /\ Cardinality(MissingPairs) = 2
    /\ Len(squashed_entries) = 2

----------------------------------------------------------------------------
(* A snapshot diff: generate_side_by_side_html on two ledger snapshots *)

\* at most this many entries in the older and in the newer snapshot
MaxOlder == 2

MaxNewer == 2

Snapshot(date, description, project, duration, tags) ==
    [date |-> date, description |-> description, project |-> project,
     duration |-> duration, tags |-> tags]

\* the entry the others are variations of: day 1, time x, key 1
BaseRecord == Snapshot(<<"1", " ", "x">>, <<"#", "1", " ", "a">>, <<"w">>, 1, <<>>)

\* the entries of the older snapshots: the base entry, the same with another
\* duration, at another time and on another day
OlderRecords ==
    {BaseRecord,
     [BaseRecord EXCEPT !.duration = 2],
     [BaseRecord EXCEPT !.date = <<"1", " ", "y">>],
     [BaseRecord EXCEPT !.date = <<"2", " ", "x">>]}

\* the entries of the newer snapshots: those of the older ones, the base
\* entry with another description of the same key, another project, another
\* tag list, an entry without a key and one with an empty timestamp
NewerRecords ==
    OlderRecords \cup
    {[BaseRecord EXCEPT !.description = <<"#", "1", " ", "b">>],
     [BaseRecord EXCEPT !.project = <<"p">>],
     [BaseRecord EXCEPT !.tags = <<<<"t">>>>],
     [BaseRecord EXCEPT !.description = <<"b">>],
     [BaseRecord EXCEPT !.date = <<>>]}

\* a snapshot file without a 'period', and with each of the given periods
SnapshotFiles(records, max, periods) ==
    {[entries |-> es] : es \in SeqUpTo(records, max)}
    \cup {[entries |-> es, period |-> p] :
              es \in SeqUpTo(records, max), p \in periods}

\* the days the differ may run on
Nows == {<<"1">>, <<"2">>}

InitDiff ==
    /\ pc = "diff_start"
    /\ original_toggl_data \in
           SnapshotFiles(OlderRecords, MaxOlder,
                         {[start |-> <<"1">>, end |-> <<"1">>]})
    /\ updated_toggl_data \in
           SnapshotFiles(NewerRecords, MaxNewer,
                         {[start |-> <<"1">>, end |-> <<"2">>],
                          [start |-> <<>>, end |-> <<>>]})
    /\ html_rows = <<>>
    /\ gitlab_data = [events |-> <<>>]
    /\ toggl_data = [entries |-> <<>>]
    /\ Locals
    /\ NoExtract
    /\ NoTools
    /\ NoRuns

\* generate_side_by_side_html, lines 44-463; an entry without a timestamp
\* raises IndexError at line 92 or 102
SideBySide ==
    /\ pc = "diff_start"
    /\ \E now \in Nows :
           LET out == generate_side_by_side_html(original_toggl_data,
                                                 updated_toggl_data, now)
           IN  IF out.raised
               THEN /\ pc' = "raised"
                    /\ UNCHANGED html_rows
               ELSE /\ pc' = "diff_done"
                    /\ html_rows' = out.rows
    /\ UNCHANGED <<original_toggl_data, updated_toggl_data>>
    /\ UNCHANGED matcherVars
    /\ UNCHANGED <<extractVars, runVars>>
    /\ UNCHANGED toolVars

NextDiff == SideBySide

SpecDiff == InitDiff /\ [][NextDiff]_vars

----------------------------------------------------------------------------
(* The rows of the diff, read against the two snapshots *)

OlderEntries == Get(original_toggl_data, "entries", <<>>)

NewerEntries == Get(updated_toggl_data, "entries", <<>>)

\* the older-snapshot records of the entry's (day, key-or-description) group
\* that have exactly the entry's timestamp
SameTimestampOlder(entry) ==
    {k \in DOMAIN OlderEntries :
        /\ get_date_from_entry(OlderEntries[k].date)
               = get_date_from_entry(entry.date)
        /\ GroupKey(OlderEntries[k]) = GroupKey(entry)
        /\ OlderEntries[k].date = entry.date}

\* two records differ in description, project, duration or tags
DiffersFrom(entry, older) ==
    \/ entry.description # older.description
    \/ entry.project # older.project
    \/ entry.duration # older.duration
    \/ entry.tags # older.tags

(* C8: a newer-snapshot record the diff shows is tagged added if and only if
   no older-snapshot record of the same (day, key-or-description) group has
   exactly the same timestamp. *)
C8_AddedIffNoSameTimestamp ==
    pc = "diff_done" =>
        \A r \in DOMAIN html_rows :
            html_rows[r].row_class = "added"
                <=> SameTimestampOlder(html_rows[r].entry) = {}

\* one row is added although the older snapshot has its day and key, another
\* row has a same-timestamp older record and is not added
C8_Witness ==
    /\ pc = "diff_done"
    /\ \E r, q \in DOMAIN html_rows :
           /\ html_rows[r].row_class = "added"
           /\ \E k \in DOMAIN OlderEntries :
                  /\ GroupKey(OlderEntries[k]) = GroupKey(html_rows[r].entry)
                  /\ get_date_from_entry(OlderEntries[k].date)
                         = html_rows[r].date
           /\ html_rows[q].row_class # "added"
           /\ SameTimestampOlder(html_rows[q].entry) # {}

(* C9: a newer-snapshot record the diff shows that has at least one
   same-timestamp older record in its group is tagged modified if and only
   if at least one of those older records differs from it in description,
   project, duration or tags; when all of them are equal to it on the four
   fields the record carries no tag. *)
C9_ModifiedIffFieldDiffers ==
    pc = "diff_done" =>
        \A r \in DOMAIN html_rows :
            LET entry == html_rows[r].entry
                older == SameTimestampOlder(entry)
            IN  older # {} =>
                    /\ html_rows[r].row_class = "modified"
                           <=> \E k \in older : DiffersFrom(entry, OlderEntries[k])
                    /\ (\A k \in older : ~DiffersFrom(entry, OlderEntries[k]))
                           => html_rows[r].row_class = ""

\* one row is modified by its duration alone, another row is unchanged
C9_Witness ==
    /\ pc = "diff_done"
    /\ \E r, q \in DOMAIN html_rows :
           /\ html_rows[r].row_class = "modified"
           /\ \A k \in SameTimestampOlder(html_rows[r].entry) :
                  /\ html_rows[r].entry.description = OlderEntries[k].description
                  /\ html_rows[r].entry.project = OlderEntries[k].project
                  /\ html_rows[r].entry.tags = OlderEntries[k].tags
           /\ html_rows[q].row_class = ""
           /\ SameTimestampOlder(html_rows[q].entry) # {}

(* C10: the differ classifies every record of the newer snapshot: every
   newer-snapshot record has its row in the diff, tagged added, modified or
   left untagged, whatever its day and whatever the periods of the two
   snapshots. *)
C10_EveryNewerRecordShown ==
    pc = "diff_done" =>
        \A j \in DOMAIN NewerEntries :
            Cardinality({r \in DOMAIN html_rows :
                            /\ html_rows[r].entry = NewerEntries[j]
                            /\ html_rows[r].row_class \in {"added", "modified", ""}})
                = Cardinality({m \in DOMAIN NewerEntries :
                                  NewerEntries[m] = NewerEntries[j]})

----------------------------------------------------------------------------
(* The matcher's outcomes, read against its inputs *)

Events == Get(gitlab_data, "events", <<>>)

Entries == Get(toggl_data, "entries", <<>>)

\* the matching pass of lines 913-941 is over
MatchingDone ==
    pc \in {"events_matched", "toggl_only_found", "output_ready", "done",
            "reported"}

\* the ledger pass of lines 944-958 is over
LedgerPassDone ==
    pc \in {"toggl_only_found", "output_ready", "done", "reported"}

HasKey(event) == Truthy(EventTaskNumber(event))

EventDay(event) == get_date_from_entry(Get(event, "date", <<>>))

EntryDay(entry) == get_date_from_entry(Get(entry, "date", <<>>))

EntryKey(entry) == extract_task_number(Get(entry, "description", <<>>))

\* the outcome record carries the event's timestamp, action, project and
\* details
DerivedFrom(outcome, event) ==
    /\ outcome.date = Get(event, "date", <<>>)
    /\ outcome.action = Get(event, "action", <<>>)
    /\ outcome.project = Get(event, "project", <<>>)
    /\ outcome.details = Get(event, "details", EmptyDict)

NumIn(list, event) ==
    Cardinality({k \in DOMAIN list : DerivedFrom(list[k], event)})

\* how many input events are equal to this one
Multiplicity(event) ==
    Cardinality({j \in DOMAIN Events :
                    StandardEvent(Events[j]) = StandardEvent(event)})

IsMatched(event) == NumIn(matched_entries, event) > 0

IsMissing(event) == NumIn(missing_entries, event) > 0

\* the ledger_only record of a ledger entry
LedgerOutcome(entry) == TogglOnlyEntry(StandardTogglEntry(entry))

IsLedgerOnly(entry) ==
    \E k \in DOMAIN toggl_only_entries :
        toggl_only_entries[k] = LedgerOutcome(entry)

Range(list) == {list[k] : k \in DOMAIN list}

(* C1, as stated: every activity event of the input, with or without a key,
   appears exactly once in the matched list and the missing list together. *)
C1_EveryEventOnce ==
    MatchingDone =>
        \A i \in DOMAIN Events :
            NumIn(matched_entries, Events[i]) + NumIn(missing_entries, Events[i])
                = Multiplicity(Events[i])

(* C1, amended: in the lists compare_entries produces, every activity event
   that carries a numeric key appears exactly once in the matched list and
   the missing list together and never in both; an event without a numeric
   key appears in neither. *)
C1_KeyedEventOnce ==
    MatchingDone =>
        \A i \in DOMAIN Events :
            /\ NumIn(matched_entries, Events[i]) + NumIn(missing_entries, Events[i])
                   = IF HasKey(Events[i]) THEN Multiplicity(Events[i]) ELSE 0
            /\ ~(IsMatched(Events[i]) /\ IsMissing(Events[i]))

\* a run with a matched event, a missing event and an event without a key
C1_Witness ==
    /\ MatchingDone
    /\ \E i, j, k \in DOMAIN Events :
           /\ HasKey(Events[i]) /\ IsMatched(Events[i])
           /\ HasKey(Events[j]) /\ IsMissing(Events[j])
           /\ ~HasKey(Events[k])

\* the ledger holds an entry of the event's day whose description yields the
\* event's key
LoggedSameDay(event) ==
    \E j \in DOMAIN Entries :
        /\ EntryDay(Entries[j]) = EventDay(event)
        /\ EntryKey(Entries[j]) = EventTaskNumber(event)

(* C2: an activity event with a numeric key is matched if and only if the
   ledger holds an entry of the same calendar day whose description yields
   the same key, and is missing otherwise; an entry with the key on another
   day does not make it matched. *)
C2_MatchedIffSameDayKey ==
    MatchingDone =>
        \A i \in DOMAIN Events :
            HasKey(Events[i]) =>
                /\ IsMatched(Events[i]) <=> LoggedSameDay(Events[i])
                /\ IsMissing(Events[i]) <=> ~LoggedSameDay(Events[i])

\* an event is missing although the ledger has its key on another day, and
\* another event is matched
C2_Witness ==
    /\ MatchingDone
    /\ \E i, k \in DOMAIN Events, j \in DOMAIN Entries :
           /\ HasKey(Events[i]) /\ IsMissing(Events[i])
           /\ EntryKey(Entries[j]) = EventTaskNumber(Events[i])
           /\ EntryDay(Entries[j]) # EventDay(Events[i])
           /\ IsMatched(Events[k])

\* the entry's (day, key, timestamp) triple was marked consumed
Consumed(entry) ==
    <<EntryDay(entry), EntryKey(entry), Get(entry, "date", <<>>)>>
        \in matched_toggl_entries

\* an activity event of the entry's day carries the entry's key
EventSameDay(entry) ==
    \E i \in DOMAIN Events :
        /\ HasKey(Events[i])
        /\ EventDay(Events[i]) = EntryDay(entry)
        /\ EventTaskNumber(Events[i]) = EntryKey(entry)

(* C3: after all activity events are processed, a ledger entry is reported
   ledger_only if and only if its (day, key, timestamp) triple was never
   marked consumed, that is, if and only if it has no numeric key or no
   activity event of its day has its key; an entry without a key is always
   ledger_only. *)
C3_LedgerOnlyIffUnconsumed ==
    LedgerPassDone =>
        \A j \in DOMAIN Entries :
            /\ IsLedgerOnly(Entries[j]) <=> ~Consumed(Entries[j])
            /\ Consumed(Entries[j]) <=>
                   (Truthy(EntryKey(Entries[j])) /\ EventSameDay(Entries[j]))
            /\ ~Truthy(EntryKey(Entries[j])) => IsLedgerOnly(Entries[j])

\* one entry was consumed and an entry with a key was not
C3_Witness ==
    /\ LedgerPassDone
    /\ \E j, m \in DOMAIN Entries :
           /\ Consumed(Entries[j]) /\ ~IsLedgerOnly(Entries[j])
           /\ Truthy(EntryKey(Entries[m])) /\ IsLedgerOnly(Entries[m])

(* C4: the three outcome lists are disjoint by origin: a ledger entry yields
   at most one ledger_only outcome, every ledger_only outcome is derived
   from a ledger entry and every matched or missing outcome from an activity
   event, and no record is in two of the lists. *)
C4_DisjointByOrigin ==
    LedgerPassDone =>
        /\ \A j \in DOMAIN Entries :
               Cardinality({k \in DOMAIN toggl_only_entries :
                               toggl_only_entries[k] = LedgerOutcome(Entries[j])})
                   <= Cardinality({m \in DOMAIN Entries :
                               LedgerOutcome(Entries[m]) = LedgerOutcome(Entries[j])})
        /\ \A o \in Range(toggl_only_entries) :
               \E j \in DOMAIN Entries : o = LedgerOutcome(Entries[j])
        /\ \A o \in Range(matched_entries) \cup Range(missing_entries) :
               \E i \in DOMAIN Events :
                   HasKey(Events[i]) /\ o = BaseEntry(StandardEvent(Events[i]))
        /\ Range(matched_entries) \cap Range(missing_entries) = {}
        /\ Range(matched_entries) \cap Range(toggl_only_entries) = {}
        /\ Range(missing_entries) \cap Range(toggl_only_entries) = {}

\* a run that fills the three lists
C4_Witness ==
    /\ LedgerPassDone
    /\ matched_entries # <<>>
    /\ missing_entries # <<>>
    /\ toggl_only_entries # <<>>

\* the events of a day with a key, and the ledger entries of that day and key
EventsOf(day, key) ==
    {i \in DOMAIN Events :
        HasKey(Events[i]) /\ EventDay(Events[i]) = day
                          /\ EventTaskNumber(Events[i]) = key}

EntriesOf(day, key) ==
    {j \in DOMAIN Entries :
        EntryDay(Entries[j]) = day /\ EntryKey(Entries[j]) = key}

\* several events of one day share a key that one ledger entry of the day has
SeveralEventsOneEntry(i) ==
    /\ HasKey(Events[i])
    /\ Cardinality(EventsOf(EventDay(Events[i]), EventTaskNumber(Events[i]))) >= 2
    /\ Cardinality(EntriesOf(EventDay(Events[i]), EventTaskNumber(Events[i]))) = 1

(* C5: when several activity events of one day reference the same key and
   the ledger has one entry with that key on that day, every one of those
   events is matched and the ledger entry is not reported ledger_only. *)
C5_SharedEntryMatchesAll ==
    LedgerPassDone =>
        \A i \in DOMAIN Events :
            SeveralEventsOneEntry(i) =>
                /\ NumIn(matched_entries, Events[i]) = Multiplicity(Events[i])
                /\ ~IsMissing(Events[i])
                /\ \A j \in EntriesOf(EventDay(Events[i]),
                                      EventTaskNumber(Events[i])) :
                       ~IsLedgerOnly(Entries[j])

\* two events of one day with one key and one ledger entry, both matched
C5_Witness ==
    /\ LedgerPassDone
    /\ \E i \in DOMAIN Events :
           /\ SeveralEventsOneEntry(i)
           /\ Len(matched_entries) >= 2

----------------------------------------------------------------------------
(* extract_task_number on a text of its own *)

\* at most this many characters in the text
MaxText == 4

\* the characters of the texts: the marker, two digits and a letter
TextChars == {"#", "1", "2", "a"}

\* the arguments of extract_task_number: every short text, and None
Texts == SeqUpTo(TextChars, MaxText) \cup {None}

InitExtract ==
    /\ pc = "extract_start"
    /\ input_text \in Texts
    /\ extracted_key = None
    /\ gitlab_data = [events |-> <<>>]
    /\ toggl_data = [entries |-> <<>>]
    /\ Locals
    /\ NoDiff
    /\ NoRuns
    /\ NoTools

\* extract_task_number(text), lines 12-21
ExtractTaskNumber ==
    /\ pc = "extract_start"
    /\ extracted_key' = extract_task_number(input_text)
    /\ pc' = "extracted"
    /\ UNCHANGED input_text
    /\ UNCHANGED <<matcherVars, diffVars, runVars>>
    /\ UNCHANGED toolVars

NextExtract == ExtractTaskNumber

SpecExtract == InitExtract /\ [][NextExtract]_vars

\* the positions of the text where a '#' is followed by a digit
KeyStarts ==
    IF input_text = None THEN {}
    ELSE {i \in 1..(Len(input_text) - 1) :
             input_text[i] = "#" /\ IsDigit(input_text[i + 1])}

FirstKeyStart == CHOOSE i \in KeyStarts : \A j \in KeyStarts : i <= j

(* C11: extract_task_number returns the digits, without the '#', of the
   first substring of the text that is '#' followed by one or more digits:
   all the digits that follow that '#' and nothing else; it returns None when
   the text is None, empty or has no such substring; it always returns. *)
C11_FirstHashDigits ==
    pc = "extracted" =>
        IF KeyStarts = {} THEN extracted_key = None
        ELSE LET i == FirstKeyStart
                 n == Len(extracted_key)
             IN  /\ extracted_key # None
                 /\ n >= 1
                 /\ i + n <= Len(input_text)
                 /\ \A k \in 1..n :
                        /\ extracted_key[k] = input_text[i + k]
                        /\ IsDigit(extracted_key[k])
                 /\ i + n + 1 <= Len(input_text)
                        => ~IsDigit(input_text[i + n + 1])

\* a text that starts with a '#' without a digit and yields a two-digit key
C11_Witness ==
    /\ pc = "extracted"
    /\ input_text # None
    /\ Len(input_text) = 4
    /\ input_text[1] = "#" /\ ~IsDigit(input_text[2])
    /\ extracted_key # None
    /\ Len(extracted_key) = 2

\* a bare key: one or more digits and nothing else
IsBareKey(text) ==
    /\ text # <<>>
    /\ \A k \in DOMAIN text : IsDigit(text[k])

(* C12, as stated: extracting a key from a text that is already a bare key
   returns that key unchanged. *)
C12_BareKeyUnchanged ==
    (pc = "extracted" /\ IsBareKey(input_text)) => extracted_key = input_text

(* C12, amended: a bare key holds no '#', so extracting from it returns
   None; extracting from '#' followed by the bare key returns the key
   unchanged. *)
C12_BareKeyNeedsHash ==
    pc = "extracted" =>
        /\ IsBareKey(input_text) => extracted_key = None
        /\ (/\ input_text # <<>>
            /\ Head(input_text) = "#"
            /\ IsBareKey(Tail(input_text)))
               => extracted_key = Tail(input_text)

\* the bare key 12 yields None
C12_Witness ==
    /\ pc = "extracted"
    /\ IsBareKey(input_text)
    /\ Len(input_text) = 2
    /\ extracted_key = None

----------------------------------------------------------------------------
(* Records without a timestamp *)

\* the record's 'date' is absent or empty
NoTimestamp(record) == Get(record, "date", <<>>) = <<>>

(* C13: an activity event or a ledger entry without a timestamp (absent or
   empty 'date') does not make compare_entries fail: the run does not raise,
   and when it is over the record has its outcome, matched or missing for an
   event with a key, ledger_only or consumed for a ledger entry. *)
C13_NoTimestampCompletes ==
    ((\E i \in DOMAIN Events : NoTimestamp(Events[i]))
        \/ (\E j \in DOMAIN Entries : NoTimestamp(Entries[j])))
    => /\ pc # "raised"
       /\ LedgerPassDone =>
              /\ \A i \in DOMAIN Events :
                     (NoTimestamp(Events[i]) /\ HasKey(Events[i]))
                         => (IsMatched(Events[i]) \/ IsMissing(Events[i]))
              /\ \A j \in DOMAIN Entries :
                     NoTimestamp(Entries[j])
                         => (IsLedgerOnly(Entries[j]) \/ Consumed(Entries[j]))

----------------------------------------------------------------------------
(* Runs of compare_entries one after the other, and the file
   result/missing_entries.json a run may leave to the next *)

\* compare_entries in compare mode, lines 857-1005, as one computation: the
\* final_output of the run, or Raised
FinalOutput(gitlab, toggl) ==
    LET events == GroupGitlabEvents(Get(gitlab, "events", <<>>), 1, <<>>)
        entries == GroupTogglEntries(Get(toggl, "entries", <<>>), 1,
                       [raised |-> FALSE, by_date |-> <<>>, all |-> <<>>])
    IN  IF events.raised THEN Raised
        ELSE IF entries.raised THEN Raised
        ELSE LET acc == ProcessDates(events.by_date, 1, entries.by_date,
                            [missing |-> <<>>, matched |-> <<>>,
                             matched_toggl |-> {}])
             IN  [raised |-> FALSE,
                  matched_entries |-> acc.matched,
                  missing_entries |-> acc.missing,
                  toggl_only_entries |->
                      FindTogglOnly(entries.all, 1, acc.matched_toggl),
                  toggl_import_data |-> FormatImportData(acc.missing)]

NoProject == <<"N", "o", " ", "P", "r", "o", "j", "e", "c", "t">>

DigitChar(n) == Alphabet[n + 4]

\* str(n) of a natural number
RECURSIVE IntStr(_)
IntStr(n) ==
    IF n < 10 THEN <<DigitChar(n)>>
    ELSE IntStr(n \div 10) \o <<DigitChar(n % 10)>>

\* line 842, seconds / 3600. The model keeps a duration in hours as its
\* number of 3600ths of an hour, so that half an hour is a whole number: it
\* is the number of seconds
SecondsToHours(seconds) == seconds

\* line 843: f"{int(d / 3600)}h {int((d % 3600) / 60)}m"
DurationFormatted(seconds) ==
    IntStr(seconds \div 3600) \o <<"h", " ">>
        \o IntStr((seconds % 3600) \div 60) \o <<"m">>

\* the ledger entry of lines 837-845 made of an import entry; n is the number
\* of entries the ledger holds so far
ImportedEntry(import_entry, n) ==
    [id |-> <<"i", "m", "p", "o", "r", "t", "_">> \o IntStr(n),
     date |-> Get(import_entry, "start", <<>>),
     description |-> Get(import_entry, "description", <<>>),
     project |-> Get(import_entry, "project_name", NoProject),
     duration |-> SecondsToHours(Get(import_entry, "duration", 0)),
     duration_formatted |-> DurationFormatted(Get(import_entry, "duration", 0)),
     tags |-> Get(import_entry, "tags", <<>>)]

\* toggl_data.setdefault('entries', []).append(new_entry), line 848
AppendEntry(toggl, new_entry) ==
    [k \in DOMAIN toggl \cup {"entries"} |->
        IF k = "entries"
        THEN Append(Get(toggl, "entries", <<>>), new_entry)
        ELSE toggl[k]]

\* the loop of lines 835-848 over imports[i..]
RECURSIVE AddImports(_, _, _)
AddImports(toggl, imports, i) ==
    IF i > Len(imports) THEN toggl
    ELSE AddImports(
             AppendEntry(toggl,
                 ImportedEntry(imports[i], Len(Get(toggl, "entries", <<>>)))),
             imports, i + 1)

MissingEntriesFile == "missing_entries.json"

\* lines 822-853: the ledger a side-by-side run works on, the newer snapshot
\* and, when result/missing_entries.json exists, its import entries after it
MergedTogglData(toggl, dir) ==
    IF MissingEntriesFile \notin DOMAIN dir THEN toggl
    ELSE AddImports(toggl,
             Get(dir[MissingEntriesFile], "toggl_import_data", <<>>), 1)

\* compare_entries in side-by-side mode, lines 818-1045, run at day now: the
\* rows of the diff, or Raised
SideBySideOutput(original, updated, dir, now) ==
    LET toggl == MergedTogglData(updated, dir)
        entries == GroupTogglEntries(Get(toggl, "entries", <<>>), 1,
                       [raised |-> FALSE, by_date |-> <<>>, all |-> <<>>])
    IN  IF entries.raised THEN Raised
        ELSE generate_side_by_side_html(original, toggl, now)

\* at most this many events in the feed of a reconciliation run, and this
\* many side-by-side runs
MaxRunEvents == 2

MaxDiffRuns == 2

\* the feeds and the ledgers of the reconciliation runs
RunFeeds ==
    [events : SeqUpTo({GitlabEvent(<<"1", " ", "x">>, <<"#", "1", " ", "a">>),
                       GitlabEvent(<<"2", " ", "y">>, <<"#", "2">>)},
                      MaxRunEvents)]

RunLedgers ==
    [entries : {<<>>, <<TogglEntry(<<"1", " ", "x">>, <<"#", "1", " ", "b">>)>>}]

\* the two snapshots of the side-by-side runs, with the period of days 1 to 2
RunSnapshots(records) ==
    {[entries |-> es, period |-> [start |-> <<"1">>, end |-> <<"2">>]] :
        es \in SeqUpTo(records, 1)}

InitRuns ==
    /\ pc = "idle"
    /\ original_toggl_data \in RunSnapshots({BaseRecord})
    /\ updated_toggl_data \in
           RunSnapshots({BaseRecord, [BaseRecord EXCEPT !.duration = 2]})
    /\ html_rows = <<>>
    /\ result_dir = EmptyDict
    /\ classifications = <<>>
    /\ second_output = EmptyDict
    /\ gitlab_data = [events |-> <<>>]
    /\ toggl_data = [entries |-> <<>>]
    /\ Locals
    /\ NoExtract
    /\ NoTools

\* what json.dump writes at line 1073: the final_output of lines 991-1005
OutputFile(gitlab, toggl, out) ==
    [summary |->
        [total_gitlab_events |-> Len(Get(gitlab, "events", <<>>)),
         total_toggl_entries |-> Len(Get(toggl, "entries", <<>>)),
         matched_entries_count |-> Len(out.matched_entries),
         missing_entries_count |-> Len(out.missing_entries),
         toggl_only_entries_count |-> Len(out.toggl_only_entries)],
     matched_entries |-> out.matched_entries,
     missing_entries |-> out.missing_entries,
     toggl_only_entries |-> out.toggl_only_entries,
     toggl_import_data |-> out.toggl_import_data]

\* a run of compare_entries in compare mode with output_format 'json' and
\* output_file 'missing_entries.json': lines 818-1005 and 1065-1074. The
\* locals of the run end with it, the file stays
CompareToFile ==
    /\ pc = "idle"
    /\ \E gitlab \in RunFeeds, toggl \in RunLedgers :
           LET out == FinalOutput(gitlab, toggl)
           IN  IF out.raised THEN UNCHANGED result_dir
               ELSE result_dir' =
                        [k \in DOMAIN result_dir \cup {MissingEntriesFile} |->
                            IF k = MissingEntriesFile
                            THEN OutputFile(gitlab, toggl, out)
                            ELSE result_dir[k]]
    /\ UNCHANGED <<pc, classifications, second_output>>
    /\ UNCHANGED <<matcherVars, diffVars, extractVars>>
    /\ UNCHANGED toolVars

\* a run of compare_entries in side-by-side mode on the two snapshots, lines
\* 818-1045
SideBySideMode ==
    /\ pc = "idle"
    /\ Len(classifications) < MaxDiffRuns
    /\ \E now \in Nows :
           LET out == SideBySideOutput(original_toggl_data, updated_toggl_data,
                                       result_dir, now)
           IN  /\ classifications' = Append(classifications, out)
               /\ html_rows' = IF out.raised THEN html_rows ELSE out.rows
    /\ UNCHANGED <<pc, result_dir, second_output, original_toggl_data,
                   updated_toggl_data>>
    /\ UNCHANGED <<matcherVars, extractVars>>
    /\ UNCHANGED toolVars

NextRuns ==
    \/ CompareToFile
    \/ SideBySideMode

SpecRuns == InitRuns /\ [][NextRuns]_vars

(* C14: two side-by-side runs of compare_entries on the same older and newer
   snapshots produce the same classification, whatever reconciliation runs
   were executed before either of them and whatever those runs left in the
   result directory. *)
C14_SameSnapshotsSameRows ==
    \A m, n \in DOMAIN classifications :
        classifications[m] = classifications[n]

----------------------------------------------------------------------------
(* The missing list and the events that take part in matching *)

(* C15: every missing outcome of compare_entries is described by '#'
   followed by the key extracted from its event's target, and by nothing
   more: for the target "#1 a" the description is "#1", not "#1 a". *)
C15_MissingDescriptionIsHashKey ==
    MatchingDone =>
        \A k \in DOMAIN missing_entries :
            /\ "target" \in DOMAIN missing_entries[k].details
            /\ missing_entries[k].description =
                   <<"#">> \o extract_task_number(
                                  missing_entries[k].details.target)
            /\ \E i \in DOMAIN Events :
                   /\ DerivedFrom(missing_entries[k], Events[i])
                   /\ missing_entries[k].description =
                          <<"#">> \o EventTaskNumber(Events[i])

\* a missing outcome whose target holds more than the key
C15_Witness ==
    /\ MatchingDone
    /\ \E k \in DOMAIN missing_entries :
           /\ missing_entries[k].details.target = <<"#", "1", " ", "a">>
           /\ missing_entries[k].description = <<"#", "1">>

\* the input events from whose details.target a numeric key is extracted
KeyedEvents == {i \in DOMAIN Events : HasKey(Events[i])}

(* C16: an activity event takes part in matching if and only if a numeric
   key can be extracted from its details.target: an event with one is in the
   matched or the missing list, an event without one is in neither, and the
   matched and the missing outcomes together are as many as the input events
   with a numeric key. *)
C16_OnlyKeyedEventsTakePart ==
    MatchingDone =>
        /\ \A i \in DOMAIN Events :
               HasKey(Events[i]) <=> (IsMatched(Events[i]) \/ IsMissing(Events[i]))
        /\ Len(matched_entries) + Len(missing_entries)
               = Cardinality(KeyedEvents)

\* three events, one of them without a key, give two outcomes
C16_Witness ==
    /\ MatchingDone
    /\ Len(Events) = 3
    /\ Cardinality(KeyedEvents) = 2
    /\ Len(matched_entries) + Len(missing_entries) = 2
    /\ matched_entries # <<>>

----------------------------------------------------------------------------
(* The squashed batch: what is left out, the start and the description *)

\* the missing records from whose description a numeric key is extracted
KeyedMissing ==
    {i \in DOMAIN missing_entries :
        Truthy(extract_task_number(missing_entries[i].description))}

\* the durations of the entries[k..] added up
RECURSIVE TotalDuration(_, _)
TotalDuration(entries, k) ==
    IF k > Len(entries) THEN 0
    ELSE entries[k].duration + TotalDuration(entries, k + 1)

\* the first record, in the order of the missing list, of a (day, key) group
FirstOf(day, key) ==
    CHOOSE i \in MissingOf(day, key) : \A j \in MissingOf(day, key) : i <= j

(* C17: missing records from which no numeric key can be extracted are left
   out of the squash: every squashed entry starts at a record with a key,
   and the durations of the batch add up to 1800 seconds for each record
   with a key, nothing for the others. *)
C17_KeylessLeftOut ==
    pc = "done" =>
        /\ \A k \in DOMAIN squashed_entries :
               \E i \in KeyedMissing :
                   /\ squashed_entries[k].start = missing_entries[i].date
                   /\ extract_task_number(squashed_entries[k].description)
                          = extract_task_number(missing_entries[i].description)
        /\ TotalDuration(squashed_entries, 1) = 1800 * Cardinality(KeyedMissing)

\* a record without a key next to one with a key: one entry of 1800 seconds
C17_Witness ==
    /\ pc = "done"
    /\ Len(missing_entries) = 2
    /\ Cardinality(KeyedMissing) = 1
    /\ Len(squashed_entries) = 1
    /\ squashed_entries[1].duration = 1800

(* C18: the start of every squashed entry is the timestamp of the first
   record of its (day, key) group in the order of the missing list, also
   when a later record of the group has an earlier timestamp. *)
C18_StartIsFirstInOrder ==
    pc = "done" =>
        \A p \in MissingPairs :
            \A k \in SquashedOf(p[1], p[2]) :
                squashed_entries[k].start
                    = missing_entries[FirstOf(p[1], p[2])].date

\* the first record of a group is at time y, a later one at the earlier time
\* x, and the entry starts at y
C18_Witness ==
    /\ pc = "done"
    /\ \E p \in MissingPairs :
           /\ missing_entries[FirstOf(p[1], p[2])].date = <<"1", " ", "y">>
           /\ \E j \in MissingOf(p[1], p[2]) :
                  missing_entries[j].date = <<"1", " ", "x">>
           /\ \E k \in SquashedOf(p[1], p[2]) :
                  squashed_entries[k].start = <<"1", " ", "y">>

\* the record carries a target label
HasLabel(entry) ==
    "details" \in DOMAIN entry /\ "target" \in DOMAIN entry.details

(* C19: a squashed entry is described by the target label of the first
   record of its group when that record carries one, and by the bare '#key'
   text when it carries none. *)
C19_LabelOfFirstElseHashKey ==
    pc = "done" =>
        \A p \in MissingPairs :
            \A k \in SquashedOf(p[1], p[2]) :
                LET first == missing_entries[FirstOf(p[1], p[2])]
                IN  squashed_entries[k].description =
                        IF HasLabel(first) THEN first.details.target
                        ELSE <<"#">> \o p[2]

\* one entry described by a target label, another by the bare key
C19_Witness ==
    /\ pc = "done"
    /\ \E k, m \in DOMAIN squashed_entries :
           /\ squashed_entries[k].description = <<"#", "1", " ", "a">>
           /\ squashed_entries[m].description = <<"#", "2">>

----------------------------------------------------------------------------
(* A snapshot diff of records that differ in their tags *)

\* at most this many entries in each of the two snapshots
MaxTagged == 1

\* the tag lists of the records: none, one label, and two labels in the two
\* orders
TagLists ==
    {<<>>, <<<<"t">>>>, <<<<"t">>, <<"u">>>>, <<<<"u">>, <<"t">>>>}

\* the base entry with each of the tag lists
TaggedRecords == {[BaseRecord EXCEPT !.tags = tags] : tags \in TagLists}

InitTags ==
    /\ pc = "diff_start"
    /\ original_toggl_data \in
           SnapshotFiles(TaggedRecords, MaxTagged,
                         {[start |-> <<"1">>, end |-> <<"1">>]})
    /\ updated_toggl_data \in
           SnapshotFiles(TaggedRecords, MaxTagged,
                         {[start |-> <<"1">>, end |-> <<"2">>],
                          [start |-> <<>>, end |-> <<>>]})
    /\ html_rows = <<>>
    /\ gitlab_data = [events |-> <<>>]
    /\ toggl_data = [entries |-> <<>>]
    /\ Locals
    /\ NoExtract
    /\ NoTools
    /\ NoRuns

SpecTags == InitTags /\ [][NextDiff]_vars

\* the labels of a record, as a set
TagSet(entry) == {entry.tags[i] : i \in DOMAIN entry.tags}

\* the two records are equal but for the order of their tags
SameButTagOrder(entry, older) ==
    /\ entry.description = older.description
    /\ entry.project = older.project
    /\ entry.duration = older.duration
    /\ TagSet(entry) = TagSet(older)
    /\ Len(entry.tags) = Len(older.tags)

(* C20: tags are compared as a set: a newer-snapshot record the diff shows
   whose same-timestamp older records differ from it in nothing but the
   order of the tags is not tagged modified. *)
C20_TagOrderIsNotAChange ==
    pc = "diff_done" =>
        \A r \in DOMAIN html_rows :
            LET entry == html_rows[r].entry
                older == SameTimestampOlder(entry)
            IN  (older # {} /\ \A k \in older :
                                   SameButTagOrder(entry, OlderEntries[k]))
                    => html_rows[r].row_class # "modified"

----------------------------------------------------------------------------
(* The date normalizer on a string of its own *)

\* calendar.day_name
WeekdayNames ==
    <<<<"M", "o", "n", "d", "a", "y">>,
      <<"T", "u", "e", "s", "d", "a", "y">>,
      <<"W", "e", "d", "n", "e", "s", "d", "a", "y">>,
      <<"T", "h", "u", "r", "s", "d", "a", "y">>,
      <<"F", "r", "i", "d", "a", "y">>,
      <<"S", "a", "t", "u", "r", "d", "a", "y">>,
      <<"S", "u", "n", "d", "a", "y">>>>

\* date_obj.weekday(): day 1 of the model's calendar is a Monday
Weekday(n) == (n + 6) % 7

\* get_day_name, lines 27-33: strptime raises ValueError on a string that is
\* not a day, and the function returns ""
get_day_name(date_str) ==
    IF IsDay(date_str) THEN WeekdayNames[Weekday(DayNumber(date_str)) + 1]
    ELSE <<>>

\* at most this many characters in the string
MaxStamp == 4

\* the characters of the strings: two days, the blank and a time of day
StampChars == {"1", "2", " ", "x"}

InitDates ==
    /\ pc = "dates_start"
    /\ timestamp_str \in SeqUpTo(StampChars, MaxStamp)
    /\ date_part = None
    /\ day_name = None
    /\ gitlab_data = [events |-> <<>>]
    /\ toggl_data = [entries |-> <<>>]
    /\ Locals
    /\ NoDiff
    /\ NoExtract
    /\ NoRuns
    /\ NoFlow
    /\ NoImport

\* get_date_from_entry(entry_date), lines 23-25: the IndexError of split()[0]
\* on a string without a token goes to the caller
GetDateFromEntry ==
    /\ pc = "dates_start"
    /\ date_part' = get_date_from_entry(timestamp_str)
    /\ pc' = IF date_part' = IndexError THEN "raised" ELSE "date_taken"
    /\ UNCHANGED <<timestamp_str, day_name>>
    /\ UNCHANGED <<matcherVars, diffVars, extractVars, runVars, flowVars,
                   importVars>>

\* get_day_name(date_str), lines 27-33
GetDayName ==
    /\ pc = "dates_start"
    /\ day_name' = get_day_name(timestamp_str)
    /\ pc' = "day_named"
    /\ UNCHANGED <<timestamp_str, date_part>>
    /\ UNCHANGED <<matcherVars, diffVars, extractVars, runVars, flowVars,
                   importVars>>

NextDates ==
    \/ GetDateFromEntry
    \/ GetDayName

SpecDates == InitDates /\ [][NextDates]_vars

(* C21: the date normalizer never raises to its caller: on every string
   get_date_from_entry returns, and what it returns is a token, not empty
   and without blanks; get_day_name returns a
   weekday name for a day and the empty label for every other string. *)
C21_NormalizerNeverRaises ==
    /\ pc # "raised"
    /\ date_part # IndexError
    /\ pc = "date_taken" =>
           /\ date_part # <<>>
           /\ \A k \in DOMAIN date_part : ~IsSpace(date_part[k])
    /\ pc = "day_named" =>
           IF IsDay(timestamp_str)
           THEN \E n \in DOMAIN WeekdayNames : day_name = WeekdayNames[n]
           ELSE day_name = <<>>

----------------------------------------------------------------------------
(* Several ledger entries with one key on one day *)

\* the entry is one of several ledger entries of its day with its key, and
\* an activity event of that day has the key
SharesReferencedKey(j) ==
    /\ Truthy(EntryKey(Entries[j]))
    /\ Cardinality(EntriesOf(EntryDay(Entries[j]), EntryKey(Entries[j]))) >= 2
    /\ EventsOf(EntryDay(Entries[j]), EntryKey(Entries[j])) # {}

(* C22: when several ledger entries share a key on a day and at least one
   activity event of that day references the key, every one of those
   entries is marked consumed and none is reported ledger_only, also when a
   single event references the key. *)
C22_AllSharingEntriesConsumed ==
    LedgerPassDone =>
        \A j \in DOMAIN Entries :
            SharesReferencedKey(j) =>
                Consumed(Entries[j]) /\ ~IsLedgerOnly(Entries[j])

\* two ledger entries at two times of a day, one event with their key: no
\* ledger_only outcome
C22_Witness ==
    /\ LedgerPassDone
    /\ \E j, m \in DOMAIN Entries :
           /\ Entries[j].date # Entries[m].date
           /\ SharesReferencedKey(j) /\ SharesReferencedKey(m)
           /\ Cardinality(EventsOf(EntryDay(Entries[j]), EntryKey(Entries[j]))) = 1
    /\ toggl_only_entries = <<>>

----------------------------------------------------------------------------
(* The order of the outcome lists *)

\* the outcome record of an activity event
EventOutcome(event) == BaseEntry(StandardEvent(event))

Outcomes(events) == [i \in DOMAIN events |-> EventOutcome(events[i])]

\* the input events with a key, in the order of the input
KeyedInOrder == SelectSeq(Events, HasKey)

\* the events day by day: the days in the order of their first appearance,
\* the events of a day in the order they have in the list
RECURSIVE DayByDay(_)
DayByDay(events) ==
    IF events = <<>> THEN <<>>
    ELSE LET day == EventDay(Head(events))
         IN  SelectSeq(events, LAMBDA e : EventDay(e) = day)
                 \o DayByDay(SelectSeq(events, LAMBDA e : EventDay(e) # day))

\* the ledger_only outcomes in the order of the input ledger
LedgerOnlyInOrder ==
    LET unconsumed == SelectSeq(Entries, LAMBDA e : ~Consumed(e))
    IN  [j \in DOMAIN unconsumed |-> LedgerOutcome(unconsumed[j])]

(* C23, as stated: the matched list and the missing list each hold their
   events in the same relative order as the input event collection, and the
   ledger_only list its entries in the order of the input ledger, also when
   events of different days are interleaved in the input. *)
C23_InputOrderKept ==
    LedgerPassDone =>
        /\ matched_entries =
               Outcomes(SelectSeq(KeyedInOrder, LoggedSameDay))
        /\ missing_entries =
               Outcomes(SelectSeq(KeyedInOrder, LAMBDA e : ~LoggedSameDay(e)))
        /\ toggl_only_entries = LedgerOnlyInOrder

(* C23, amended: the matched list and the missing list each hold their
   events day by day, the days in the order of their first appearance in
   the input and the events of one day in their input order; the
   ledger_only list holds its entries in the order of the input ledger. *)
C23_DayByDayOrderKept ==
    LedgerPassDone =>
        /\ matched_entries =
               Outcomes(SelectSeq(DayByDay(KeyedInOrder), LoggedSameDay))
        /\ missing_entries =
               Outcomes(SelectSeq(DayByDay(KeyedInOrder),
                                  LAMBDA e : ~LoggedSameDay(e)))
        /\ toggl_only_entries = LedgerOnlyInOrder

\* an event of day 2 between two events of day 1, all three missing: the
\* missing list has the two events of day 1 first
C23_Witness ==
    /\ LedgerPassDone
    /\ Len(Events) = 3
    /\ EventDay(Events[1]) = <<"1">>
    /\ EventDay(Events[2]) = <<"2">>
    /\ EventDay(Events[3]) = <<"1">>
    /\ Events[1] # Events[3]
    /\ missing_entries =
           <<EventOutcome(Events[1]), EventOutcome(Events[3]),
             EventOutcome(Events[2])>>

----------------------------------------------------------------------------
(* The order of the squashed batch *)

SquashedDay(k) == get_date_from_entry(squashed_entries[k].start)

SquashedKey(k) == extract_task_number(squashed_entries[k].description)

\* the first record with a key, in the order of the missing list, of a day
FirstOfDay(day) ==
    LET ofDay == {i \in KeyedMissing :
                     get_date_from_entry(missing_entries[i].date) = day}
    IN  CHOOSE i \in ofDay : \A j \in ofDay : i <= j

(* C24: the squashed batch is in the order of first appearance and is not
   sorted: of two entries of different days the one whose day appears first
   in the missing list comes first, and of two entries of one day the one
   whose key appears first on that day. *)
C24_OrderOfFirstAppearance ==
    pc = "done" =>
        \A a, b \in DOMAIN squashed_entries :
            a < b =>
                IF SquashedDay(a) # SquashedDay(b)
                THEN FirstOfDay(SquashedDay(a)) < FirstOfDay(SquashedDay(b))
                ELSE FirstOf(SquashedDay(a), SquashedKey(a))
                         < FirstOf(SquashedDay(b), SquashedKey(b))

\* day 2 before day 1, and on day 1 the key 2 before the key 1
C24_Witness ==
    /\ pc = "done"
    /\ Len(squashed_entries) = 3
    /\ SquashedDay(1) = <<"2">>
    /\ SquashedDay(2) = <<"1">> /\ SquashedKey(2) = <<"2">>
    /\ SquashedDay(3) = <<"1">> /\ SquashedKey(3) = <<"1">>

----------------------------------------------------------------------------
(* A second reconciliation after the squashed batch of the first one has
   been imported into the ledger *)

MaxReEvents == 2
MaxReEntries == 1

\* the ledger entry an imported batch entry becomes: import_from_gitlab takes
\* description, start, duration and tags of the batch entry (lines 373-400)
\* and creates a time entry of them; the ledger export gives start as date
LedgerEntryOf(batch_entry) ==
    [date |-> batch_entry.start,
     description |-> batch_entry.description,
     project |-> NoProject,
     duration |-> batch_entry.duration,
     tags |-> batch_entry.tags]

\* the ledger after the import of a batch
RECURSIVE ImportBatch(_, _)
ImportBatch(ledger, batch) ==
    IF batch = <<>> THEN ledger
    ELSE ImportBatch(Append(ledger, LedgerEntryOf(Head(batch))), Tail(batch))

InitReimport ==
    /\ pc = "start"
    /\ gitlab_data \in [events : SeqUpTo(GitlabEvents, MaxReEvents)]
    /\ toggl_data \in [entries : SeqUpTo(TogglEntries, MaxReEntries)]
    /\ Locals
    /\ NoDiff
    /\ NoExtract
    /\ NoTools
    /\ NoRuns

\* the batch written by the first run is imported into the ledger
ImportSquashed ==
    /\ pc = "done"
    /\ toggl_data' = [toggl_data EXCEPT
                         !.entries = ImportBatch(@, squashed_entries)]
    /\ pc' = "imported"
    /\ UNCHANGED <<gitlab_data, gitlab_events_by_date, toggl_entries_by_date,
                   all_toggl_entries, matched_toggl_entries, missing_entries,
                   matched_entries, toggl_only_entries, toggl_import_data,
                   squashed_entries>>
    /\ UNCHANGED <<diffVars, extractVars, runVars, toolVars>>

\* compare_entries runs again on the same events and the extended ledger
SecondRun ==
    /\ pc = "imported"
    /\ second_output' = FinalOutput(gitlab_data, toggl_data)
    /\ pc' = "rerun_done"
    /\ UNCHANGED <<result_dir, classifications>>
    /\ UNCHANGED <<matcherVars, diffVars, extractVars, toolVars>>

NextReimport ==
    \/ GroupEvents
    \/ GroupEntries
    \/ MatchEvents
    \/ FindTogglOnlyEntries
    \/ FormatOutput
    \/ GenerateImport
    \/ ImportSquashed
    \/ SecondRun

SpecReimport == InitReimport /\ [][NextReimport]_vars

(* C25: when the squashed batch of a run that completed is added to the
   ledger, each batch entry as a ledger entry with its start as date and its
   description as description, a second run on the same events and the
   extended ledger completes, has an empty missing list, and every event
   that was missing in the first run is in its matched list. *)
C25_SecondRunHasNoMissing ==
    pc = "rerun_done" =>
        /\ ~second_output.raised
        /\ second_output.missing_entries = <<>>
        /\ \A i \in DOMAIN missing_entries :
               \E k \in DOMAIN second_output.matched_entries :
                   /\ second_output.matched_entries[k].date
                          = missing_entries[i].date
                   /\ extract_task_number(
                          second_output.matched_entries[k].description)
                          = extract_task_number(missing_entries[i].description)

\* two events of day 1 with different keys were missing and are matched now
C25_Witness ==
    /\ pc = "rerun_done"
    /\ Len(missing_entries) = 2
    /\ Len(squashed_entries) = 2
    /\ ~second_output.raised
    /\ Len(second_output.matched_entries) = 2
    /\ second_output.missing_entries = <<>>

(* C26: squashing conserves the inferred time: when a run of compare_entries
   has written its batch, the durations of the squashed entries add up to
   1800 seconds times the number of missing outcomes, and so do the durations
   of the unsquashed toggl_import_data entries built from the same missing
   list. *)
C26_SquashConservesTime ==
    pc = "done" =>
        /\ TotalDuration(squashed_entries, 1) = 1800 * Len(missing_entries)
        /\ TotalDuration(toggl_import_data, 1) = 1800 * Len(missing_entries)

\* two missing events of one day and key: one squashed entry of 3600 seconds
\* against two import entries of 1800 seconds
C26_Witness ==
    /\ pc = "done"
    /\ Len(missing_entries) = 2
    /\ Len(squashed_entries) = 1
    /\ Len(toggl_import_data) = 2
    /\ TotalDuration(squashed_entries, 1) = 3600

----------------------------------------------------------------------------
(* A snapshot diff of records without a task number *)

\* at most this many entries in each of the two snapshots
MaxKeyless == 2

\* the entry the others are variations of: day 1, time x, no task number
KeylessRecord == Snapshot(<<"1", " ", "x">>, <<"a">>, <<"w">>, 1, <<>>)

\* the entries of the older snapshots: the keyless entry, the same with
\* another description and at another time, and an entry with a task number
KeylessOlder ==
    {KeylessRecord,
     [KeylessRecord EXCEPT !.description = <<"b">>],
     [KeylessRecord EXCEPT !.date = <<"1", " ", "y">>],
     BaseRecord}

\* the entries of the newer snapshots: the keyless entry, and the same with
\* another description, an empty one, another project, another duration
\* and another tag list
KeylessNewer ==
    {KeylessRecord,
     [KeylessRecord EXCEPT !.description = <<"b">>],
     [KeylessRecord EXCEPT !.description = <<>>],
     [KeylessRecord EXCEPT !.project = <<"p">>],
     [KeylessRecord EXCEPT !.duration = 2],
     [KeylessRecord EXCEPT !.tags = <<<<"t">>>>]}

InitKeyless ==
    /\ pc = "diff_start"
    /\ original_toggl_data \in
           SnapshotFiles(KeylessOlder, MaxKeyless,
                         {[start |-> <<"1">>, end |-> <<"1">>]})
    /\ updated_toggl_data \in
           SnapshotFiles(KeylessNewer, MaxKeyless,
                         {[start |-> <<"1">>, end |-> <<"2">>],
                          [start |-> <<>>, end |-> <<>>]})
    /\ html_rows = <<>>
    /\ gitlab_data = [events |-> <<>>]
    /\ toggl_data = [entries |-> <<>>]
    /\ Locals
    /\ NoExtract
    /\ NoTools
    /\ NoRuns

SpecKeyless == InitKeyless /\ [][NextDiff]_vars

\* the record carries no task number
IsKeyless(entry) == ~Truthy(extract_task_number(entry.description))

\* the older-snapshot records with exactly the entry's timestamp
OlderAt(entry) == {k \in DOMAIN OlderEntries : OlderEntries[k].date = entry.date}

(* C27: a newer-snapshot record without a task number that the diff shows
   is grouped by its full description: when every older-snapshot record of
   its timestamp has another description it is tagged added, not modified,
   and it is tagged modified only when an older record of the same timestamp
   and description differs from it in project, duration or tags. *)
C27_KeylessGroupedByDescription ==
    pc = "diff_done" =>
        \A r \in DOMAIN html_rows :
            LET entry == html_rows[r].entry
            IN  IsKeyless(entry) =>
                    /\ (\A k \in OlderAt(entry) :
                            OlderEntries[k].description # entry.description)
                           => html_rows[r].row_class = "added"
                    /\ html_rows[r].row_class = "modified"
                           => \E k \in OlderAt(entry) :
                                  /\ OlderEntries[k].description
                                         = entry.description
                                  /\ \/ OlderEntries[k].project # entry.project
                                     \/ OlderEntries[k].duration # entry.duration
                                     \/ OlderEntries[k].tags # entry.tags

\* a keyless row is added although an older keyless record has its timestamp
\* and another description, and another keyless row is modified
C27_Witness ==
    /\ pc = "diff_done"
    /\ \E r, q \in DOMAIN html_rows :
           /\ IsKeyless(html_rows[r].entry)
           /\ html_rows[r].row_class = "added"
           /\ \E k \in OlderAt(html_rows[r].entry) :
                  /\ IsKeyless(OlderEntries[k])
                  /\ OlderEntries[k].description # html_rows[r].entry.description
           /\ IsKeyless(html_rows[q].entry)
           /\ html_rows[q].row_class = "modified"

----------------------------------------------------------------------------
(* The workflow driver, work_flow.main *)

\* the files of lines 116-117 and 130; a file that exists is a key of files
GitlabOutputFile == "gitlab_output_file"

TogglOutputFile == "toggl_output_file"

ImportFile == "import_file"

\* what the driver can find in the import file: text that is no JSON, an
\* object without 'entries', one with an empty and one with a non-empty list
ImportFileContents == {"not_json", "no_entries", "empty_entries", "entries"}

\* the files the driver may find when it starts
FlowFiles ==
    UNION {[names -> {"json"}] : names \in SUBSET {GitlabOutputFile, TogglOutputFile}}

\* the file written, the others as they are
WriteFile(dir, name, content) ==
    [k \in DOMAIN dir \cup {name} |-> IF k = name THEN content ELSE dir[k]]

\* confirm.lower() of line 238, on the letters of the answers
AnswerLowerChar(ch) == IF ch = "Y" THEN "y" ELSE IF ch = "N" THEN "n" ELSE ch

AnswerLower(answer) == [k \in DOMAIN answer |-> AnswerLowerChar(answer[k])]

\* the answers to the prompt of line 236
ConfirmAnswers == {<<"y">>, <<"Y">>, <<"n">>, <<>>, <<"y", "y">>}

\* run_command, lines 44-85: the command has run and ended with success or
\* with a non-zero status
CommandRun(name, success) == [name |-> name, success |-> success]

InitFlow ==
    /\ pc = "flow_start"
    /\ month_choice = 0
    /\ script_choice = 0
    /\ \E dir \in FlowFiles :
           \/ files = dir
           \/ \E content \in ImportFileContents :
                  files = WriteFile(dir, ImportFile, content)
    /\ commands = <<>>
    /\ confirm = None
    /\ flow_exit = None
    /\ gitlab_data = [events |-> <<>>]
    /\ toggl_data = [entries |-> <<>>]
    /\ Locals
    /\ NoDiff
    /\ NoExtract
    /\ NoRuns
    /\ NoDates
    /\ NoImport

\* lines 99-107
ChooseMonth ==
    /\ pc = "flow_start"
    /\ \E choice \in 1..3 :
           /\ month_choice' = choice
           /\ IF choice = 3
              THEN pc' = "flow_exited" /\ flow_exit' = IntStr(0)
              ELSE pc' = "month_chosen" /\ UNCHANGED flow_exit
    /\ UNCHANGED <<script_choice, files, commands, confirm>>
    /\ UNCHANGED <<matcherVars, diffVars, extractVars, runVars, dateVars,
                   importVars>>

\* lines 113-127, 185 and 279: the script is chosen and its branch entered
ChooseScript ==
    /\ pc = "month_chosen"
    /\ \E choice \in 1..6 :
           /\ script_choice' = choice
           /\ IF choice = 6
              THEN pc' = "flow_exited" /\ flow_exit' = IntStr(0)
              ELSE /\ pc' = CASE choice = 5 -> "import_json"
                              [] choice = 4 -> "compare_only"
                              [] choice \in {1, 3} -> "gitlab"
                              [] choice = 2 -> "toggl"
                   /\ UNCHANGED flow_exit
    /\ UNCHANGED <<month_choice, files, commands, confirm>>
    /\ UNCHANGED <<matcherVars, diffVars, extractVars, runVars, dateVars,
                   importVars>>

\* lines 133-148 and 181-183 of 'Import JSON': a file that is not there or
\* is no JSON ends the driver with status 1, one without entries with 0
CheckImportFile ==
    /\ pc = "import_json"
    /\ IF ImportFile \notin DOMAIN files
       THEN pc' = "flow_exited" /\ flow_exit' = IntStr(1)
       ELSE IF files[ImportFile] = "not_json"
       THEN pc' = "flow_exited" /\ flow_exit' = IntStr(1)
       ELSE IF files[ImportFile] \in {"no_entries", "empty_entries"}
       THEN pc' = "flow_exited" /\ flow_exit' = IntStr(0)
       ELSE pc' = "projects" /\ UNCHANGED flow_exit
    /\ UNCHANGED <<month_choice, script_choice, files, commands, confirm>>
    /\ UNCHANGED <<matcherVars, diffVars, extractVars, runVars, dateVars,
                   importVars>>

\* lines 152-157 and 243-248: the projects are listed, whatever the outcome
RunProjects ==
    /\ pc = "projects"
    /\ \E success \in BOOLEAN :
           commands' = Append(commands, CommandRun("projects", success))
    /\ pc' = "import"
    /\ UNCHANGED <<month_choice, script_choice, files, confirm, flow_exit>>
    /\ UNCHANGED <<matcherVars, diffVars, extractVars, runVars, dateVars,
                   importVars>>

\* lines 159-179 and 250-270: the import command is run; main returns
\* whether it succeeded or not
RunImport ==
    /\ pc = "import"
    /\ \E success \in BOOLEAN :
           commands' = Append(commands, CommandRun("import", success))
    /\ pc' = "flow_exited"
    /\ flow_exit' = IntStr(0)
    /\ UNCHANGED <<month_choice, script_choice, files, confirm>>
    /\ UNCHANGED <<matcherVars, diffVars, extractVars, runVars, dateVars,
                   importVars>>

\* lines 188-197 of 'Compare only': both output files must be there
CheckOutputFiles ==
    /\ pc = "compare_only"
    /\ IF GitlabOutputFile \notin DOMAIN files
          \/ TogglOutputFile \notin DOMAIN files
       THEN pc' = "flow_exited" /\ flow_exit' = IntStr(1)
       ELSE pc' = "compare" /\ UNCHANGED flow_exit
    /\ UNCHANGED <<month_choice, script_choice, files, commands, confirm>>
    /\ UNCHANGED <<matcherVars, diffVars, extractVars, runVars, dateVars,
                   importVars>>

\* lines 199-216: the comparison is run with --generate-import; when it
\* succeeds it has written the import file (compare_gitlab_toggl.py lines
\* 1007-1024), when it fails the driver ends with status 1
RunCompare ==
    /\ pc = "compare"
    /\ \E success \in BOOLEAN :
           /\ commands' = Append(commands, CommandRun("compare", success))
           /\ IF success
              THEN /\ \E content \in {"empty_entries", "entries"} :
                          files' = WriteFile(files, ImportFile, content)
                   /\ pc' = "read_import"
                   /\ UNCHANGED flow_exit
              ELSE /\ pc' = "flow_exited"
                   /\ flow_exit' = IntStr(1)
                   /\ UNCHANGED files
    /\ UNCHANGED <<month_choice, script_choice, confirm>>
    /\ UNCHANGED <<matcherVars, diffVars, extractVars, runVars, dateVars,
                   importVars>>

\* lines 223-234 and 275-277: the import file is read; without a file, with
\* one that is no JSON or has no entries the import step is skipped
ReadImportFile ==
    /\ pc = "read_import"
    /\ IF ImportFile \in DOMAIN files /\ files[ImportFile] = "entries"
       THEN pc' = "confirm" /\ UNCHANGED flow_exit
       ELSE pc' = "flow_exited" /\ flow_exit' = IntStr(0)
    /\ UNCHANGED <<month_choice, script_choice, files, commands, confirm>>
    /\ UNCHANGED <<matcherVars, diffVars, extractVars, runVars, dateVars,
                   importVars>>

\* a confirmation step that goes on to the import whatever the answer
AskConfirmAnyAnswer ==
    /\ pc = "confirm"
    /\ \E answer \in ConfirmAnswers : confirm' = answer
    /\ pc' = "projects"
    /\ UNCHANGED flow_exit
    /\ UNCHANGED <<month_choice, script_choice, files, commands>>
    /\ UNCHANGED <<matcherVars, diffVars, extractVars, runVars, dateVars,
                   importVars>>

\* lines 236-238 and 271-273: the import goes on only when the answer is y
AskConfirm ==
    /\ pc = "confirm"
    /\ \E answer \in ConfirmAnswers :
           /\ confirm' = answer
           /\ IF AnswerLower(answer) = <<"y">>
              THEN pc' = "projects" /\ UNCHANGED flow_exit
              ELSE pc' = "flow_exited" /\ flow_exit' = IntStr(0)
    /\ UNCHANGED <<month_choice, script_choice, files, commands>>
    /\ UNCHANGED <<matcherVars, diffVars, extractVars, runVars, dateVars,
                   importVars>>

\* a GitLab step that goes on whatever the command's outcome
RunGitlabUnchecked ==
    /\ pc = "gitlab"
    /\ \E success \in BOOLEAN :
           /\ commands' = Append(commands, CommandRun("gitlab", success))
           /\ files' = IF success
                       THEN WriteFile(files, GitlabOutputFile, "json")
                       ELSE files
           /\ IF script_choice = 3
              THEN pc' = "toggl" /\ UNCHANGED flow_exit
              ELSE pc' = "flow_exited" /\ flow_exit' = IntStr(0)
    /\ UNCHANGED <<month_choice, script_choice, confirm>>
    /\ UNCHANGED <<matcherVars, diffVars, extractVars, runVars, dateVars,
                   importVars>>

\* lines 279-297: the GitLab history command; a failure ends the driver with
\* status 1, a success leaves the output file and, for 'Both', goes on to
\* the Toggl step
RunGitlab ==
    /\ pc = "gitlab"
    /\ \E success \in BOOLEAN :
           /\ commands' = Append(commands, CommandRun("gitlab", success))
           /\ IF ~success
              THEN /\ pc' = "flow_exited"
                   /\ flow_exit' = IntStr(1)
                   /\ UNCHANGED files
              ELSE /\ files' = WriteFile(files, GitlabOutputFile, "json")
                   /\ IF script_choice = 3
                      THEN pc' = "toggl" /\ UNCHANGED flow_exit
                      ELSE pc' = "flow_exited" /\ flow_exit' = IntStr(0)
    /\ UNCHANGED <<month_choice, script_choice, confirm>>
    /\ UNCHANGED <<matcherVars, diffVars, extractVars, runVars, dateVars,
                   importVars>>

\* lines 299-324: the Toggl activity command; a failure ends the driver with
\* status 1, after a success main returns
RunToggl ==
    /\ pc = "toggl"
    /\ \E success \in BOOLEAN :
           /\ commands' = Append(commands, CommandRun("toggl", success))
           /\ IF ~success
              THEN /\ flow_exit' = IntStr(1)
                   /\ UNCHANGED files
              ELSE /\ flow_exit' = IntStr(0)
                   /\ files' = WriteFile(files, TogglOutputFile, "json")
    /\ pc' = "flow_exited"
    /\ UNCHANGED <<month_choice, script_choice, confirm>>
    /\ UNCHANGED <<matcherVars, diffVars, extractVars, runVars, dateVars,
                   importVars>>

NextFlow ==
    \/ ChooseMonth
    \/ ChooseScript
    \/ CheckImportFile
    \/ RunProjects
    \/ RunImport
    \/ CheckOutputFiles
    \/ RunCompare
    \/ ReadImportFile
    \/ AskConfirm
    \/ RunGitlab
    \/ RunToggl

SpecFlow == InitFlow /\ [][NextFlow]_vars

\* the i-th command the driver ran is a fetch or the comparison, and failed
FailedStep(i) ==
    /\ commands[i].name \in {"gitlab", "toggl", "compare"}
    /\ ~commands[i].success

(* C28: with 'Both' the Toggl activity command is started only after the
   GitLab history command has succeeded; in every mode a fetch or comparison
   command that fails is the last step: the driver has ended with status 1,
   no command was run after it and no confirmation was asked. *)
C28_FailedStepEndsWorkflow ==
    /\ script_choice = 3 =>
           \A i \in DOMAIN commands :
               commands[i].name = "toggl" =>
                   \E j \in 1..(i - 1) : commands[j] = CommandRun("gitlab", TRUE)
    /\ \A i \in DOMAIN commands :
           FailedStep(i) =>
               /\ i = Len(commands)
               /\ pc = "flow_exited"
               /\ flow_exit = IntStr(1)
               /\ confirm = None

\* 'Both' was chosen and the GitLab command failed
C28_Witness ==
    /\ script_choice = 3
    /\ commands = <<CommandRun("gitlab", FALSE)>>
    /\ flow_exit = IntStr(1)

(* C29: the import command is run only on the paths 'Compare only' and
   'Import JSON' and only when the import file is there, is JSON and has a
   non-empty entries list; on 'Compare only' only after the comparison
   command succeeded and the confirmation was answered with y. *)
C29_ImportOnlyWhenAllowed ==
    \A i \in DOMAIN commands :
        commands[i].name = "import" =>
            /\ script_choice \in {4, 5}
            /\ ImportFile \in DOMAIN files
            /\ files[ImportFile] = "entries"
            /\ script_choice = 4 =>
                   /\ \E j \in 1..(i - 1) : commands[j] = CommandRun("compare", TRUE)
                   /\ confirm # None
                   /\ AnswerLower(confirm) = <<"y">>

\* on 'Compare only' the comparison succeeded, the answer was y and the
\* import was run
C29_Witness ==
    /\ script_choice = 4
    /\ confirm = <<"y">>
    /\ Len(commands) = 3
    /\ commands[1] = CommandRun("compare", TRUE)
    /\ commands[3].name = "import"

----------------------------------------------------------------------------
(* The import into the ledger, toggle_activity.import_from_gitlab on a file
   with an 'entries' list *)

\* at most this many entries in the import file
MaxImport == 3

\* the entries of the import files: with and without a description, with a
\* start that is a timestamp, that is empty and that is a day without a time
ImportEntries ==
    {[description |-> description, start |-> start, duration |-> 1800,
      tags |-> <<GitlabImportTag>>] :
        description \in {<<"#", "1">>, <<"#", "2">>, <<>>},
        start \in {<<"1", " ", "x">>, <<>>, <<"1">>}}

\* line 386: strptime(start_time_str, '%Y-%m-%d %H:%M:%S') does not raise
\* ValueError; in the model's timestamps, a day digit, a space and a time
ParsesAsTimestamp(start_time_str) ==
    /\ Len(start_time_str) = 3
    /\ IsDigit(start_time_str[1])
    /\ start_time_str[2] = " "
    /\ ~IsDigit(start_time_str[3])
    /\ start_time_str[3] # " "

\* lines 375-391: the entry passes the three checks that skip an entry
Importable(entry) ==
    /\ Truthy(Get(entry, "description", <<>>))
    /\ Truthy(Get(entry, "start", <<>>))
    /\ ParsesAsTimestamp(Get(entry, "start", <<>>))

InitImport ==
    /\ pc = "import_loop"
    /\ import_file \in [entries : SeqUpTo(ImportEntries, MaxImport)]
    /\ cursor = 1
    /\ attempts = <<>>
    /\ toggl_created = <<>>
    /\ imported_count = 0
    /\ import_report = None
    /\ import_exit = None
    /\ gitlab_data = [events |-> <<>>]
    /\ toggl_data = [entries |-> <<>>]
    /\ Locals
    /\ NoDiff
    /\ NoExtract
    /\ NoRuns
    /\ NoDates
    /\ NoFlow

\* a loop body that goes on to the next entry when a creation fails
ImportEntryKeepGoing ==
    /\ pc = "import_loop"
    /\ cursor <= Len(import_file.entries)
    /\ LET entry == import_file.entries[cursor]
       IN  IF ~Importable(entry)
           THEN UNCHANGED <<attempts, toggl_created, imported_count>>
           ELSE /\ attempts' = Append(attempts, entry)
                /\ \E created \in BOOLEAN :
                       toggl_created' = IF created
                                        THEN Append(toggl_created, entry)
                                        ELSE toggl_created
                /\ imported_count' = imported_count + 1
    /\ cursor' = cursor + 1
    /\ UNCHANGED <<pc, import_file, import_report, import_exit>>
    /\ UNCHANGED <<matcherVars, diffVars, extractVars, runVars, dateVars,
                   flowVars>>

\* one pass of the loop of lines 372-412: the entry is skipped, or
\* add_toggl_entry is called with it; when the request of lines 311-313
\* succeeds the entry is created and counted, when it raises
\* RequestException the process exits with status 1 (lines 319-321), and
\* the service may or may not have created the entry
ImportEntry ==
    /\ pc = "import_loop"
    /\ cursor <= Len(import_file.entries)
    /\ LET entry == import_file.entries[cursor]
       IN  IF ~Importable(entry)
           THEN /\ cursor' = cursor + 1
                /\ UNCHANGED <<pc, attempts, toggl_created, imported_count,
                               import_exit>>
           ELSE /\ attempts' = Append(attempts, entry)
                /\ \/ /\ toggl_created' = Append(toggl_created, entry)
                      /\ imported_count' = imported_count + 1
                      /\ cursor' = cursor + 1
                      /\ UNCHANGED <<pc, import_exit>>
                   \/ /\ \E created \in BOOLEAN :
                             toggl_created' = IF created
                                              THEN Append(toggl_created, entry)
                                              ELSE toggl_created
                      /\ pc' = "import_exited"
                      /\ import_exit' = IntStr(1)
                      /\ UNCHANGED <<cursor, imported_count>>
    /\ UNCHANGED <<import_file, import_report>>
    /\ UNCHANGED <<matcherVars, diffVars, extractVars, runVars, dateVars,
                   flowVars>>

\* line 467, after the loop: the report is printed and the function returns
ReportImport ==
    /\ pc = "import_loop"
    /\ cursor > Len(import_file.entries)
    /\ import_report' = IntStr(imported_count)
    /\ import_exit' = IntStr(0)
    /\ pc' = "import_exited"
    /\ UNCHANGED <<import_file, cursor, attempts, toggl_created,
                   imported_count>>
    /\ UNCHANGED <<matcherVars, diffVars, extractVars, runVars, dateVars,
                   flowVars>>

NextImport ==
    \/ ImportEntry
    \/ ReportImport

SpecImport == InitImport /\ [][NextImport]_vars

\* the entries before the cursor that pass the three checks, in file order
ImportableBefore(n) ==
    SelectSeq(SubSeq(import_file.entries, 1, n - 1), Importable)

\* list is made of the first entries of longer
IsPrefix(list, longer) ==
    /\ Len(list) <= Len(longer)
    /\ SubSeq(longer, 1, Len(list)) = list

(* C30: the import attempts the entries that have a description and a start
   that parses, in file order, and skips the others. While no creation has
   failed, every attempted entry is created and counted. When a creation
   fails the process has ended with status 1, the failed entry is the last
   one attempted, the entries created before it are still created and no
   report is printed. The report is printed only when every importable entry
   of the file was created, and gives their number. *)
C30_ImportStopsAtFirstFailure ==
    /\ import_exit # IntStr(1) =>
           /\ attempts = ImportableBefore(cursor)
           /\ toggl_created = attempts
           /\ imported_count = Len(attempts)
    /\ import_exit = IntStr(1) =>
           /\ cursor <= Len(import_file.entries)
           /\ attempts = Append(ImportableBefore(cursor),
                                import_file.entries[cursor])
           /\ Importable(import_file.entries[cursor])
           /\ IsPrefix(ImportableBefore(cursor), toggl_created)
           /\ import_report = None
    /\ import_report # None =>
           /\ import_exit = IntStr(0)
           /\ toggl_created
                  = ImportableBefore(Len(import_file.entries) + 1)
           /\ import_report = IntStr(Len(toggl_created))

\* the first entry was created, the second skipped, the third failed: the
\* process ended with status 1 and the first entry is still created
C30_Witness ==
    /\ import_exit = IntStr(1)
    /\ cursor = 3
    /\ import_report = None
    /\ ~Importable(import_file.entries[2])
    /\ Len(attempts) = 2
    /\ toggl_created = <<import_file.entries[1]>>

=============================================================================
